---- MODULE Spec2Model ----
(***************************************************************************)
(* A model of simai's backend orchestration (src/src/simai/backends and    *)
(* src/src/simai/cli/simulate.py): binary resolution, process invocation,  *)
(* the scoped temporary working directory and the placement of result      *)
(* files at the caller's output path.                                      *)
(*                                                                         *)
(* The filesystem is a function from paths (sequences of names) to nodes.  *)
(* A node is a directory or a file with a content.  A content is a pair    *)
(* <<owner, name>>: owner 0 is data that existed before a call, owner i is *)
(* data written during invocation i.                                       *)
(***************************************************************************)
EXTENDS Integers, Sequences, FiniteSets, TLC

VARIABLES
    fs,            \* the filesystem: [existing paths -> node]
    fs0,           \* the filesystem when the modelled code was entered
    active,        \* the invocations that take part in this behaviour
    backend,       \* [Invs -> "analytical" | "ns3" | "m4"]
    output_path,   \* [Invs -> path]: the resolved output path of the call
    pc,            \* [Invs -> position in the code]
    result_files,  \* [Invs -> sequence of paths]: the collected result list
    primary,       \* [Invs -> path]: the file moved onto output_path
    idx,           \* [Invs -> index of the placement loop]
    mv,            \* [Invs -> the shutil.move call in progress]
    outcome,       \* [Invs -> "running" | "returned" | "raised"]
    err,           \* [Invs -> name of the exception that left the call]
    warned,        \* [Invs -> whether the empty-result warning was printed]
    moves,         \* [Invs -> number of completed shutil.move calls]
    finished,      \* the invocations that returned, in the order they did
    lastPut,       \* [paths renamed onto -> the content last moved there]
    call,          \* [Invs -> the entry point the caller used]
    input,         \* the caller's arguments and files, and the binary's behaviour
    environ,       \* os.environ: [set variables -> value]
    environ0,      \* os.environ when the call began
    binary,        \* [Invs -> path find_binary returned]
    spawned,       \* [Invs -> number of processes started]
    child,         \* [Invs -> cmd, cwd and env of the process started]
    errcode,       \* [Invs -> exit status carried by CalledProcessError]
    mkdtemps,      \* [Invs -> number of temporary directories created]
    args,          \* [Invs -> the argument list built for the binary]
    env,           \* [Invs -> the environment overrides the driver built]
    printed,       \* [Invs -> the warnings the driver printed before the run]
    topo_src,      \* _convert_topology: the source file, a sequence of lines
    lines,         \* _convert_topology: what f.readlines() returned
    written,       \* _convert_topology: the lines written to dst so far
    ln,            \* _convert_topology: the loop index i
    cstate,        \* _convert_topology: "idle" | "loop" | "done" | "raised"
    sys_path,      \* sys.path: a sequence of directory names
    scopes,        \* the open _topo_on_path/_aicb_on_path blocks, innermost last
    roots,         \* [generator -> the root its search finds, "" for none]
    last_exit,     \* how the scope that ended last left sys.path
    gstate,        \* generate_topology: the position in its code
    gen_in,        \* generate_topology: its arguments and what upstream does
    cwd,           \* os.getcwd(): the working directory of the process
    orig_cwd,      \* generate_topology: the local orig_cwd
    topo_file,     \* generate_topology: generated[0]
    gerr           \* generate_topology: the exception that is propagating

\* The state of a call of _convert_topology on its own.
convVars == <<topo_src, lines, written, ln, cstate>>
\* The state of the scoped additions to the module search path.
pathVars == <<sys_path, scopes, roots, last_exit>>
\* The state of a call of generate_topology.
genVars == <<gstate, gen_in, cwd, orig_cwd, topo_file, gerr>>
\* What no action of the drivers and commands changes.
fixed == <<fs0, active, backend, output_path, call, input, environ0, convVars,
           pathVars, genVars>>
\* What the placement block does not touch.
hostVars == <<environ, binary, spawned, child, errcode, mkdtemps, args, env,
              printed>>
\* What only the placement block touches.
placeLocals == <<result_files, primary, idx, mv, warned, moves, finished, lastPut>>

\* The state of the drivers, the commands and run_binary.
orchVars == <<fs, fs0, active, backend, output_path, pc, outcome, err, call, input,
              environ0, hostVars, placeLocals>>

vars == <<fs, pc, outcome, err, fixed, hostVars, placeLocals>>

----------------------------------------------------------------------------
(* Bounds *)

\* Number of children a pre-existing directory entry holds.
MaxKids == 1

Invs == {1, 2}

\* Names the binary may write into its working directory.
ResultNames == {"EndToEnd.csv", "Detailed.csv"}

\* Names of output targets a caller may ask for.
TargetNames == {"report.csv", "Detailed.csv", "results"}

\* pathlib's suffix: the names above that have a dot after their first
\* character.
HasSuffix(name) == name \in {"report.csv", "Detailed.csv", "EndToEnd.csv",
                             "flow1.txt", "trace1.txt", "keep.txt"}

----------------------------------------------------------------------------
(* Filesystem *)

NoPath == <<>>

Content(i, n) == <<i, n>>
DirNode == [k |-> "dir", c |-> Content(0, ""), t |-> NoPath]
FileNode(c) == [k |-> "file", c |-> c, t |-> NoPath]
\* A symbolic link made by invocation i, pointing at path target.
LinkNode(i, target) == [k |-> "link", c |-> Content(i, ""), t |-> target]

Last(p) == p[Len(p)]
Parent(p) == SubSeq(p, 1, Len(p) - 1)
IsPrefix(p, q) == Len(p) <= Len(q) /\ SubSeq(q, 1, Len(p)) = p

Exists(f, p) == p \in DOMAIN f
IsDir(f, p) == p \in DOMAIN f /\ f[p].k = "dir"
IsFile(f, p) == p \in DOMAIN f /\ f[p].k = "file"

\* The paths at or below p.
Under(f, p) == {q \in DOMAIN f : IsPrefix(p, q)}

\* Path.iterdir: the entries directly inside directory d.
Iterdir(f, d) == {q \in DOMAIN f : Len(q) = Len(d) + 1 /\ IsPrefix(d, q)}

\* The orders in which a directory listing may enumerate a set of entries.
Orders(S) ==
    {s \in [1..Cardinality(S) -> S] :
        \A a, b \in 1..Cardinality(S) : a # b => s[a] # s[b]}

\* shutil.rmtree / TemporaryDirectory cleanup / unlink: p and all below it go.
RemoveTree(f, p) == [q \in DOMAIN f \ Under(f, p) |-> f[q]]

\* os.rename of src (with all below it) to dst, replacing a file at dst.
Rename(f, src, dst) ==
    LET moved == Under(f, src)
        rest  == DOMAIN f \ (moved \cup {dst})
        to(q) == dst \o SubSeq(q, Len(src) + 1, Len(q))
        from(q) == src \o SubSeq(q, Len(dst) + 1, Len(q))
    IN [q \in rest \cup {to(m) : m \in moved} |->
            IF IsPrefix(dst, q) THEN f[from(q)] ELSE f[q]]

\* The proper ancestors of p and p itself, shortest first.
Prefixes(p) == {SubSeq(p, 1, n) : n \in 1..Len(p)}

\* Path.mkdir(parents=True, exist_ok=True) succeeds unless a component of p
\* exists and is not a directory.
MkdirOk(f, p) == \A q \in Prefixes(p) : Exists(f, q) => IsDir(f, q)
Mkdir(f, p) ==
    [q \in DOMAIN f \cup Prefixes(p) |-> IF q \in DOMAIN f THEN f[q] ELSE DirNode]

\* A filesystem from a set of <<path, node>> pairs with distinct paths.
FsOf(S) == [p \in {e[1] : e \in S} |-> (CHOOSE e \in S : e[1] = p)[2]]

Root == <<>>
Out == <<"out">>
TmpName(i) == IF i = 1 THEN "simai_tmp1" ELSE "simai_tmp2"
Tmp(i) == <<TmpName(i)>>

----------------------------------------------------------------------------
(* Leaving the with-block of a driver *)

\* An exception propagates out of the with-block.
Raise(i, e) ==
    /\ outcome' = [outcome EXCEPT ![i] = "raised"]
    /\ err' = [err EXCEPT ![i] = e]
    /\ finished' = finished
    /\ pc' = [pc EXCEPT ![i] = "with_exit"]

\* The with-block is left normally, by "return output_path" or at its end.
Return(i) ==
    /\ outcome' = [outcome EXCEPT ![i] = "returned"]
    /\ err' = err
    /\ finished' = Append(finished, i)
    /\ pc' = [pc EXCEPT ![i] = "with_exit"]

\* An exit of the with-block that leaves the directory where it is.
CleanupSkipped(f, i) == f

\* A removal of the directory that also empties what its symlinks point at.
CleanupFollowsLinks(f, i) ==
    LET inside == Under(f, Tmp(i))
        targets == {f[q].t : q \in {r \in inside : f[r].k = "link"}}
        gone == inside \cup UNION {Under(f, t) : t \in targets}
    IN [q \in DOMAIN f \ gone |-> f[q]]

\* tempfile.TemporaryDirectory.__exit__ leaves the filesystem without the
\* directory and everything in it.
CleanupFs(f, i) == RemoveTree(f, Tmp(i))

\* with tempfile.TemporaryDirectory(...) as tmpdir: the exit of the block.
WithExit(i) ==
    /\ i \in active
    /\ pc[i] = "with_exit"
    /\ fs' = CleanupFs(fs, i)
    /\ pc' = [pc EXCEPT ![i] = "ended"]
    /\ UNCHANGED <<fixed, hostVars, result_files, primary,
                   idx, mv, outcome, err, finished, warned, moves, lastPut>>

----------------------------------------------------------------------------
(* Collection of the result files *)

\* The names a driver leaves out of the result list it builds from tmpdir.
M4Skipped == {"topology_m4", "astra-sim-alibabacloud", "output"}

\* Listings with run_m4 taking the entries of output/ and of tmpdir together.
ListingsMixed(f, i, b) ==
    CASE b = "analytical" ->
           IF IsDir(f, Tmp(i) \o <<"results">>)
           THEN Orders(Iterdir(f, Tmp(i) \o <<"results">>))
           ELSE {<<>>}
      [] b = "ns3" ->
           Orders({q \in Iterdir(f, Tmp(i)) : Last(q) # "SimAI.conf"})
      [] b = "m4" ->
           Orders((IF Exists(f, Tmp(i) \o <<"output">>)
                   THEN Iterdir(f, Tmp(i) \o <<"output">>) ELSE {})
                  \cup {q \in Iterdir(f, Tmp(i)) : Last(q) \notin M4Skipped})

\* The listings a driver may obtain: every enumeration order of the entries.
Listings(f, i, b) ==
    CASE b = "analytical" ->
           IF IsDir(f, Tmp(i) \o <<"results">>)
           THEN Orders(Iterdir(f, Tmp(i) \o <<"results">>))
           ELSE {<<>>}
      [] b = "ns3" ->
           Orders({q \in Iterdir(f, Tmp(i)) : Last(q) # "SimAI.conf"})
      [] b = "m4" ->
           IF Exists(f, Tmp(i) \o <<"output">>)
              /\ Iterdir(f, Tmp(i) \o <<"output">>) # {}
           THEN Orders(Iterdir(f, Tmp(i) \o <<"output">>))
           ELSE Orders({q \in Iterdir(f, Tmp(i)) : Last(q) \notin M4Skipped})

\* Collect with the output directory created before the list is looked at.
CollectMkdirFirst(i) ==
    /\ i \in active
    /\ pc[i] = "collect"
    /\ fs' = IF MkdirOk(fs, output_path[i]) THEN Mkdir(fs, output_path[i]) ELSE fs
    /\ \E l \in Listings(fs, i, backend[i]) :
          /\ result_files' = [result_files EXCEPT ![i] = l]
          /\ IF l = <<>>
             THEN /\ warned' = [warned EXCEPT ![i] = TRUE]
                  /\ Return(i)
             ELSE /\ warned' = warned
                  /\ pc' = [pc EXCEPT ![i] = "classify"]
                  /\ UNCHANGED <<outcome, err, finished>>
    /\ UNCHANGED <<fixed, hostVars, primary, idx, mv, moves, lastPut>>

\* result_files = ...; if not result_files: print warning; return output_path
Collect(i) ==
    /\ i \in active
    /\ pc[i] = "collect"
    /\ \E l \in Listings(fs, i, backend[i]) :
          /\ result_files' = [result_files EXCEPT ![i] = l]
          /\ IF l = <<>>
             THEN /\ warned' = [warned EXCEPT ![i] = TRUE]
                  /\ Return(i)
             ELSE /\ warned' = warned
                  /\ pc' = [pc EXCEPT ![i] = "classify"]
                  /\ UNCHANGED <<outcome, err, finished>>
    /\ UNCHANGED <<fs, fixed, hostVars, primary, idx, mv,
                   moves, lastPut>>

----------------------------------------------------------------------------
(* Placement of the result files at output_path *)

\* "EndToEnd" in f.name
HasMarker(name) == name \in {"EndToEnd.csv"}

\* if output_path.suffix and not output_path.is_dir():
FileLike(f, p) == HasSuffix(Last(p)) /\ ~IsDir(f, p)

\* The primary result: analytical takes the first file whose name contains
\* "EndToEnd" and else the first file; ns3 and m4 take the first file.
FirstMarked(l) ==
    LET hits == {n \in 1..Len(l) : HasMarker(Last(l[n]))}
    IN IF hits = {} THEN 0 ELSE CHOOSE n \in hits : \A m \in hits : n <= m
\* Primary without the search for the marker.
PrimaryFirst(b, l) == l[1]

Primary(b, l) ==
    IF b = "analytical" /\ FirstMarked(l) # 0 THEN l[FirstMarked(l)] ELSE l[1]

\* The index the loop over the remaining files starts at: analytical and ns3
\* walk result_files, m4 walks result_files[1:].
LoopStart(b) == IF b = "m4" THEN 2 ELSE 1

NoMove == [src |-> NoPath, dst |-> NoPath, real |-> NoPath, ret |-> "none"]
StartMove(i, s, d, r) ==
    /\ mv' = [mv EXCEPT ![i] = [src |-> s, dst |-> d, real |-> NoPath, ret |-> r]]
    /\ pc' = [pc EXCEPT ![i] = "mv_check"]

\* Classify with the test for an existing directory left out.
ClassifyBySuffix(i) ==
    /\ i \in active
    /\ pc[i] = "classify"
    /\ pc' = [pc EXCEPT ![i] =
                 IF HasSuffix(Last(output_path[i])) THEN "f_mkdir" ELSE "d_mkdir"]
    /\ UNCHANGED <<fs, fixed, hostVars, result_files,
                   primary, idx, mv, outcome, err, finished, warned, moves, lastPut>>

Classify(i) ==
    /\ i \in active
    /\ pc[i] = "classify"
    /\ pc' = [pc EXCEPT ![i] =
                 IF FileLike(fs, output_path[i]) THEN "f_mkdir" ELSE "d_mkdir"]
    /\ UNCHANGED <<fs, fixed, hostVars, result_files,
                   primary, idx, mv, outcome, err, finished, warned, moves, lastPut>>

\* output_path.parent.mkdir(parents=True, exist_ok=True); the choice of the
\* primary result; the start of shutil.move(primary, output_path).
FileMkdir(i) ==
    /\ i \in active
    /\ pc[i] = "f_mkdir"
    /\ IF MkdirOk(fs, Parent(output_path[i]))
       THEN /\ fs' = Mkdir(fs, Parent(output_path[i]))
            /\ primary' = [primary EXCEPT ![i] = Primary(backend[i], result_files[i])]
            /\ idx' = [idx EXCEPT ![i] = LoopStart(backend[i]) - 1]
            /\ StartMove(i, primary'[i], output_path[i], "f_loop")
            /\ UNCHANGED <<outcome, err, finished>>
       ELSE /\ Raise(i, "FileExistsError")
            /\ UNCHANGED <<fs, primary, idx, mv>>
    /\ UNCHANGED <<fixed, hostVars, result_files, warned,
                   moves, lastPut>>

\* shutil.move, first half: a destination that is a directory means "move
\* into it", and an entry of the same name inside it is an error.
MoveCheck(i) ==
    /\ i \in active
    /\ pc[i] = "mv_check"
    /\ LET into == mv[i].dst \o <<Last(mv[i].src)>> IN
       IF IsDir(fs, mv[i].dst)
       THEN IF Exists(fs, into)
            THEN /\ Raise(i, "shutil.Error")
                 /\ mv' = mv
            ELSE /\ mv' = [mv EXCEPT ![i].real = into]
                 /\ pc' = [pc EXCEPT ![i] = "mv_rename"]
                 /\ UNCHANGED <<outcome, err, finished>>
       ELSE /\ mv' = [mv EXCEPT ![i].real = mv[i].dst]
            /\ pc' = [pc EXCEPT ![i] = "mv_rename"]
            /\ UNCHANGED <<outcome, err, finished>>
    /\ UNCHANGED <<fs, fixed, hostVars, result_files,
                   primary, idx, warned, moves, lastPut>>

\* shutil.move, second half: os.rename(src, real_dst), and on OSError the
\* copy-and-delete fallback, which fails on the same conditions.
MoveRename(i) ==
    /\ i \in active
    /\ pc[i] = "mv_rename"
    /\ LET s == mv[i].src
           r == mv[i].real
       IN IF ~Exists(fs, s) \/ ~IsDir(fs, Parent(r))
          THEN /\ Raise(i, "FileNotFoundError")
               /\ UNCHANGED <<fs, idx, mv, moves, lastPut>>
          ELSE IF IsDir(fs, r)
          THEN /\ Raise(i, "IsADirectoryError")
               /\ UNCHANGED <<fs, idx, mv, moves, lastPut>>
          ELSE /\ fs' = Rename(fs, s, r)
               /\ idx' = [idx EXCEPT ![i] = @ + 1]
               /\ moves' = [moves EXCEPT ![i] = @ + 1]
               /\ lastPut' = [q \in DOMAIN lastPut \cup {r} |->
                                 IF q = r THEN fs[s].c ELSE lastPut[q]]
               /\ pc' = [pc EXCEPT ![i] = mv[i].ret]
               /\ mv' = [mv EXCEPT ![i] = NoMove]
               /\ UNCHANGED <<outcome, err, finished>>
    /\ UNCHANGED <<fixed, hostVars, result_files, primary,
                   warned>>

\* for item in result_files: if item.exists(): shutil.move(item, parent / name)
FileLoop(i) ==
    /\ i \in active
    /\ pc[i] = "f_loop"
    /\ IF idx[i] > Len(result_files[i])
       THEN /\ Return(i)
            /\ UNCHANGED <<idx, mv>>
       ELSE LET item == result_files[i][idx[i]] IN
            IF Exists(fs, item)
            THEN /\ StartMove(i, item,
                              Parent(output_path[i]) \o <<Last(item)>>, "f_loop")
                 /\ UNCHANGED <<idx, outcome, err, finished>>
            ELSE /\ idx' = [idx EXCEPT ![i] = @ + 1]
                 /\ UNCHANGED <<pc, mv, outcome, err, finished>>
    /\ UNCHANGED <<fs, fixed, hostVars, result_files,
                   primary, warned, moves, lastPut>>

\* output_path.mkdir(parents=True, exist_ok=True)
DirMkdir(i) ==
    /\ i \in active
    /\ pc[i] = "d_mkdir"
    /\ IF MkdirOk(fs, output_path[i])
       THEN /\ fs' = Mkdir(fs, output_path[i])
            /\ idx' = [idx EXCEPT ![i] = 1]
            /\ pc' = [pc EXCEPT ![i] = "d_loop"]
            /\ UNCHANGED <<outcome, err, finished>>
       ELSE /\ Raise(i, "FileExistsError")
            /\ UNCHANGED <<fs, idx>>
    /\ UNCHANGED <<fixed, hostVars, result_files, primary,
                   mv, warned, moves, lastPut>>

\* Dest with the item put next to output_path instead of inside it.
DestBeside(i) == Parent(output_path[i]) \o <<Last(result_files[i][idx[i]])>>

\* The destination of the item the directory loop is at.
Dest(i) == output_path[i] \o <<Last(result_files[i][idx[i]])>>

\* for item in result_files: dest = output_path / item.name; if dest.exists():
DirLoop(i) ==
    /\ i \in active
    /\ pc[i] = "d_loop"
    /\ IF idx[i] > Len(result_files[i])
       THEN /\ Return(i)
            /\ mv' = mv
       ELSE IF Exists(fs, Dest(i))
       THEN /\ pc' = [pc EXCEPT ![i] = "d_isdir"]
            /\ UNCHANGED <<mv, outcome, err, finished>>
       ELSE /\ StartMove(i, result_files[i][idx[i]], Dest(i), "d_loop")
            /\ UNCHANGED <<outcome, err, finished>>
    /\ UNCHANGED <<fs, fixed, hostVars, result_files,
                   primary, idx, warned, moves, lastPut>>

\* if dest.is_dir():
DirIsDir(i) ==
    /\ i \in active
    /\ pc[i] = "d_isdir"
    /\ pc' = [pc EXCEPT ![i] = IF IsDir(fs, Dest(i)) THEN "d_rmtree" ELSE "d_unlink"]
    /\ UNCHANGED <<fs, fixed, hostVars, result_files,
                   primary, idx, mv, outcome, err, finished, warned, moves, lastPut>>

\* DirRmtree with the rmtree call left out.
DirRmtreeSkipped(i) ==
    /\ i \in active
    /\ pc[i] = "d_rmtree"
    /\ fs' = fs
    /\ StartMove(i, result_files[i][idx[i]], Dest(i), "d_loop")
    /\ UNCHANGED <<outcome, err, finished>>
    /\ UNCHANGED <<fixed, hostVars, result_files, primary,
                   idx, warned, moves, lastPut>>

\* DirRmtree removing the whole target directory instead of dest.
DirRmtreeWhole(i) ==
    /\ i \in active
    /\ pc[i] = "d_rmtree"
    /\ fs' = RemoveTree(fs, Parent(Dest(i)))
    /\ StartMove(i, result_files[i][idx[i]], Dest(i), "d_loop")
    /\ UNCHANGED <<outcome, err, finished>>
    /\ UNCHANGED <<fixed, hostVars, result_files, primary,
                   idx, warned, moves, lastPut>>

\* shutil.rmtree(dest), then shutil.move(item, dest)
DirRmtree(i) ==
    /\ i \in active
    /\ pc[i] = "d_rmtree"
    /\ IF IsDir(fs, Dest(i))
       THEN /\ fs' = RemoveTree(fs, Dest(i))
            /\ StartMove(i, result_files[i][idx[i]], Dest(i), "d_loop")
            /\ UNCHANGED <<outcome, err, finished>>
       ELSE /\ Raise(i, IF Exists(fs, Dest(i)) THEN "NotADirectoryError"
                                               ELSE "FileNotFoundError")
            /\ UNCHANGED <<fs, mv>>
    /\ UNCHANGED <<fixed, hostVars, result_files, primary,
                   idx, warned, moves, lastPut>>

\* dest.unlink(), then shutil.move(item, dest)
DirUnlink(i) ==
    /\ i \in active
    /\ pc[i] = "d_unlink"
    /\ IF IsFile(fs, Dest(i))
       THEN /\ fs' = RemoveTree(fs, Dest(i))
            /\ StartMove(i, result_files[i][idx[i]], Dest(i), "d_loop")
            /\ UNCHANGED <<outcome, err, finished>>
       ELSE /\ Raise(i, IF Exists(fs, Dest(i)) THEN "IsADirectoryError"
                                               ELSE "FileNotFoundError")
            /\ UNCHANGED <<fs, mv>>
    /\ UNCHANGED <<fixed, hostVars, result_files, primary,
                   idx, warned, moves, lastPut>>

----------------------------------------------------------------------------
(* The placement block on its own: the state in which a driver reaches the  *)
(* line after run_binary, for every working directory the binary may leave  *)
(* and every state of the output location.                                  *)

\* What the sandbox of invocation i holds when the binary has written the
\* files named in made: the entries the driver created before the run and
\* the binary's files, which m4's binary writes to output/ or to its cwd, or
\* to output/ with a further file, stray.log, in its cwd.
SandboxEntries(i, b, made, where) ==
    LET file(p, n) == <<p \o <<n>>, FileNode(Content(i, n))>>
        t == Tmp(i)
    IN {<<t, DirNode>>} \cup
       CASE b = "analytical" ->
              {<<t \o <<"results">>, DirNode>>}
              \cup {file(t \o <<"results">>, n) : n \in made}
         [] b = "ns3" ->
              {file(t, "SimAI.conf"), file(t, "flow1.txt"), file(t, "trace1.txt")}
              \cup {file(t, n) : n \in made}
         [] b = "m4" ->
              {file(t, "topology_m4"), <<t \o <<"output">>, DirNode>>}
              \cup {file(IF where = "cwd" THEN t ELSE t \o <<"output">>, n) :
                      n \in made}
              \cup (IF where = "both" THEN {file(t, "stray.log")} ELSE {})

Shapes == {"none", "file", "dir"}
KidName(n, k) == IF k = 2 THEN n ELSE IF k = 1 THEN "old.dat" ELSE "older.dat"

\* An entry that exists before the call at path p, with name n.
StaleEntry(p, n, shape) ==
    CASE shape = "none" -> {}
      [] shape = "file" -> {<<p, FileNode(Content(0, n))>>}
      [] shape = "dir" ->
           {<<p, DirNode>>}
           \cup {<<p \o <<KidName(n, k)>>, FileNode(Content(0, KidName(n, k)))>> :
                   k \in 1..MaxKids}

\* The output location before the call: out/ with keep.txt, the target as
\* preTarget says, and an entry per result name where placement will put it
\* (inside the target when that is a directory, next to it otherwise).
OutEntries(tname, parentExists, preTarget, preEnt) ==
    LET target == Out \o <<tname>>
        base == IF preTarget = "dir" THEN target ELSE Out
    IN IF ~parentExists THEN {}
       ELSE {<<Out, DirNode>>, <<Out \o <<"keep.txt">>, FileNode(Content(0, "keep.txt"))>>}
            \cup (CASE preTarget = "none" -> {}
                    [] preTarget = "file" -> {<<target, FileNode(Content(0, tname))>>}
                    [] preTarget = "dir" ->
                         {<<target, DirNode>>,
                          <<target \o <<"keep.txt">>, FileNode(Content(0, "keep.txt"))>>})
            \cup UNION {StaleEntry(base \o <<n>>, n, preEnt[n]) :
                          n \in {m \in ResultNames : base \o <<m>> # target}}

NoInput == [name |-> "", env |-> [v \in {} |-> ""], status |-> 0, made |-> {},
            workload |-> <<>>, num_gpus |-> 0, topo |-> "ok", libtorch |-> "",
            opts |-> {}, prefix_given |-> FALSE, result_prefix |-> "",
            send_latency |-> 0, nvls |-> FALSE, pxn |-> FALSE]
NoEnv == [v \in {} |-> ""]
NoChild == [cmd |-> NoPath, argv |-> <<>>, cwd |-> NoPath, env |-> [v \in {} |-> ""]]

\* No call of _convert_topology on its own is under way.
ConvIdle ==
    /\ topo_src = <<>>
    /\ lines = <<>>
    /\ written = <<>>
    /\ ln = 0
    /\ cstate = "idle"

\* No block that adds to sys.path is open.
NoExit == [how |-> "none", before |-> <<>>, after |-> <<>>]
PathIdle ==
    /\ sys_path = <<>>
    /\ scopes = <<>>
    /\ roots = [g \in {} |-> ""]
    /\ last_exit = NoExit

\* No call of generate_topology is under way.
NoGen == [output |-> "none", pre |-> "none", rail_optimized |-> TRUE,
          dual_ToR |-> FALSE, dual_plane |-> FALSE, bandwidth |-> "100Gbps",
          nvlink_bw |-> "2880Gbps", made |-> {}, fails |-> FALSE, wanders |-> FALSE]
GenIdle ==
    /\ gstate = "idle"
    /\ gen_in = NoGen
    /\ cwd = <<"work">>
    /\ orig_cwd = NoPath
    /\ topo_file = NoPath
    /\ gerr = "none"

\* The locals of every invocation before its first step, at position start.
InitOrch(b, tname, start) ==
    /\ backend = b
    /\ output_path = [i \in Invs |-> Out \o <<tname>>]
    /\ pc = [i \in Invs |-> IF i \in active THEN start ELSE "absent"]
    /\ result_files = [i \in Invs |-> <<>>]
    /\ primary = [i \in Invs |-> NoPath]
    /\ idx = [i \in Invs |-> 0]
    /\ mv = [i \in Invs |-> NoMove]
    /\ outcome = [i \in Invs |-> "running"]
    /\ err = [i \in Invs |-> "none"]
    /\ warned = [i \in Invs |-> FALSE]
    /\ moves = [i \in Invs |-> 0]
    /\ finished = <<>>
    /\ lastPut = [q \in {} |-> Content(0, "")]
    /\ binary = [i \in Invs |-> NoPath]
    /\ spawned = [i \in Invs |-> 0]
    /\ child = [i \in Invs |-> NoChild]
    /\ errcode = [i \in Invs |-> 0]
    /\ mkdtemps = [i \in Invs |-> 0]
    /\ args = [i \in Invs |-> <<>>]
    /\ env = [i \in Invs |-> NoEnv]
    /\ printed = [i \in Invs |-> {}]

InitLocals(b, tname, start) ==
    InitOrch(b, tname, start) /\ ConvIdle /\ PathIdle /\ GenIdle

InitInv(b, tname) ==
    /\ InitLocals(b, tname, "collect")
    /\ call = [i \in Invs |-> "placement"]
    /\ input = NoInput
    /\ environ = [v \in {} |-> ""]
    /\ environ0 = environ

\* One invocation, any backend, any output location.
InitSolo ==
    /\ active = {1}
    /\ \E b \in {"analytical", "ns3", "m4"}, tname \in TargetNames,
          made \in SUBSET ResultNames, where \in {"output", "cwd", "both"},
          parentExists \in BOOLEAN, preTarget \in Shapes,
          preEnt \in [ResultNames -> Shapes] :
          /\ b # "m4" => where = "output"
          /\ where = "both" =>
                 /\ made # {} /\ parentExists /\ preTarget = "none"
                 /\ preEnt = [n \in ResultNames |-> "none"]
          /\ ~parentExists => preTarget = "none" /\ preEnt = [n \in ResultNames |-> "none"]
          /\ fs = FsOf({<<Root, DirNode>>}
                       \cup SandboxEntries(1, b, made, where)
                       \cup OutEntries(tname, parentExists, preTarget, preEnt))
          /\ InitInv([i \in Invs |-> b], tname)
    /\ fs0 = fs

\* Two invocations that place into the same output path.
InitPair ==
    /\ active = {1, 2}
    /\ \E b \in [Invs -> {"analytical", "m4"}], tname \in {"report.csv", "results"},
          made \in [Invs -> (SUBSET ResultNames) \ {{}}],
          preTarget \in {"none", "dir"},
          stale \in {"none", "file"} :
          /\ fs = FsOf({<<Root, DirNode>>}
                       \cup SandboxEntries(1, b[1], made[1], "output")
                       \cup SandboxEntries(2, b[2], made[2], "output")
                       \cup OutEntries(tname, TRUE, preTarget,
                                       [n \in ResultNames |-> stale]))
          /\ InitInv(b, tname)
    /\ fs0 = fs

InitPlace == InitSolo \/ InitPair

NextPlace ==
    \E i \in Invs :
        \/ Collect(i)
        \/ Classify(i)
        \/ FileMkdir(i)
        \/ FileLoop(i)
        \/ DirMkdir(i)
        \/ DirLoop(i)
        \/ DirIsDir(i)
        \/ DirRmtree(i)
        \/ DirUnlink(i)
        \/ MoveCheck(i)
        \/ MoveRename(i)
        \/ WithExit(i)

SpecPlace == InitPlace /\ [][NextPlace]_vars

----------------------------------------------------------------------------
(* Properties of the placement block *)

\* Invocation i is the only one and its placement ran to its end.
PlacedAlone(i) ==
    /\ active = {i}
    /\ pc[i] = "ended"
    /\ outcome[i] = "returned"
    /\ Len(result_files[i]) > 0

\* The content result file r had in the sandbox.
Original(r) == fs0[r].c

\* The paths outside every sandbox.
Outside(f) == {q \in DOMAIN f : \A i \in Invs : ~IsPrefix(Tmp(i), q)}

\* C1: with a file-like output target and at least one result file, after
\* placement the target is a file holding the primary result's original
\* content and every other result is a file next to the target, under its own
\* name and with its original content, whatever the result names and whatever
\* existed at or next to the target.
C1_FileLikePlacement ==
    \A i \in active :
        (PlacedAlone(i) /\ FileLike(fs0, output_path[i])) =>
            /\ IsFile(fs, output_path[i])
            /\ fs[output_path[i]].c = Original(primary[i])
            /\ \A n \in 1..Len(result_files[i]) :
                  result_files[i][n] # primary[i] =>
                      LET sib == Parent(output_path[i]) \o <<Last(result_files[i][n])>>
                      IN IsFile(fs, sib) /\ fs[sib].c = Original(result_files[i][n])

\* C2: with a directory-like output target, after placement every result is a
\* file directly under the target with its original content, and nothing is
\* left of an entry of the same name that was there before (neither a file
\* nor a directory or any of its children).
C2_DirLikePlacement ==
    \A i \in active :
        (PlacedAlone(i) /\ ~FileLike(fs0, output_path[i])) =>
            \A n \in 1..Len(result_files[i]) :
                LET dest == output_path[i] \o <<Last(result_files[i][n])>>
                IN /\ IsFile(fs, dest)
                   /\ fs[dest].c = Original(result_files[i][n])
                   /\ Under(fs, dest) = {dest}

\* A placement that replaced a directory with children and a stale file.
C2_Witness ==
    \E i \in active :
        /\ PlacedAlone(i) /\ ~FileLike(fs0, output_path[i])
        /\ \E n \in 1..Len(result_files[i]) :
              LET dest == output_path[i] \o <<Last(result_files[i][n])>>
              IN IsDir(fs0, dest) /\ Under(fs0, dest) # {dest} /\ IsFile(fs, dest)
        /\ \E n \in 1..Len(result_files[i]) :
              IsFile(fs0, output_path[i] \o <<Last(result_files[i][n])>>)

\* C3: with an empty result set the call prints the warning, returns
\* normally and leaves everything outside its sandbox as it was: nothing is
\* created, removed or modified at the target or its parents.
C3_EmptyResultSet ==
    \A i \in active :
        (active = {i} /\ pc[i] \in {"with_exit", "ended"} /\ Len(result_files[i]) = 0) =>
            /\ warned[i]
            /\ outcome[i] = "returned"
            /\ [q \in Outside(fs) |-> fs[q]] = [q \in Outside(fs0) |-> fs0[q]]

\* An empty-result call that ended, with the target absent before and after.
C3_Witness ==
    \E i \in active :
        /\ active = {i} /\ pc[i] = "ended" /\ Len(result_files[i]) = 0
        /\ warned[i]
        /\ ~Exists(fs, output_path[i])

----------------------------------------------------------------------------
(* Two placements into the same output path *)

BothEnded == active = {1, 2} /\ \A i \in active : pc[i] = "ended"
BothReturned == BothEnded /\ \A i \in active : outcome[i] = "returned"

\* Where the n-th result of invocation i belongs: the primary of a file-like
\* placement at the target and the others next to it, every result of a
\* directory-like placement inside the target.
PlacedAt(i, n) ==
    IF FileLike(fs0, output_path[i])
    THEN IF result_files[i][n] = primary[i]
         THEN output_path[i]
         ELSE Parent(output_path[i]) \o <<Last(result_files[i][n])>>
    ELSE output_path[i] \o <<Last(result_files[i][n])>>

\* The invocation whose placement finished last.
LastFinished == finished[Len(finished)]

----------------------------------------------------------------------------
(* Binary resolution and process invocation (backends/binary.py) *)

\* Directories the environment may name, as paths.
PathOf(v) ==
    CASE v = "/opt/simai/bin" -> <<"opt", "simai", "bin">>
      [] v = "/usr/bin" -> <<"usr", "bin">>
      [] v = "/data/simai" -> <<"data", "simai">>
      [] OTHER -> <<"cwd">>

\* Path(__file__).resolve().parent.parent: the installed simai package.
Package == <<"site-packages", "simai">>

Bundled(name) == Package \o <<"_binaries", name>>

\* os.environ.get(v): "" stands for None as well, both are false in "if".
Getenv(e, v) == IF v \in DOMAIN e THEN e[v] ELSE ""

EnvCandidate(e, name) == PathOf(Getenv(e, "SIMAI_BIN_PATH")) \o <<name>>

\* shutil.which(name): the file called name in the directory PATH names.
Which(f, e, name) ==
    IF Getenv(e, "PATH") # "" /\ IsFile(f, PathOf(Getenv(e, "PATH")) \o <<name>>)
    THEN PathOf(Getenv(e, "PATH")) \o <<name>>
    ELSE NoPath

\* find_binary with the SIMAI_BIN_PATH directory tried before the bundled one.
FindBinaryEnvFirst(f, e, name) ==
    IF Getenv(e, "SIMAI_BIN_PATH") # "" /\ IsFile(f, EnvCandidate(e, name))
    THEN EnvCandidate(e, name)
    ELSE IF IsFile(f, Bundled(name)) THEN Bundled(name)
    ELSE Which(f, e, name)

\* find_binary that does not test whether the bundled file exists.
FindBinaryUnchecked(f, e, name) == Bundled(name)

\* find_binary(name): the path returned, NoPath for FileNotFoundError.
FindBinary(f, e, name) ==
    IF IsFile(f, Bundled(name)) THEN Bundled(name)
    ELSE IF Getenv(e, "SIMAI_BIN_PATH") # "" /\ IsFile(f, EnvCandidate(e, name))
    THEN EnvCandidate(e, name)
    ELSE Which(f, e, name)

\* run_env with the caller's environment left out.
RunEnvNarrowed(e, over) == over

\* run_env = os.environ.copy(); if env: run_env.update(env)
RunEnv(e, over) ==
    [v \in DOMAIN e \cup DOMAIN over |-> IF v \in DOMAIN over THEN over[v] ELSE e[v]]

----------------------------------------------------------------------------
(* Entry points as the code has them *)

\* The value of a missing dictionary key or of "no match".
None == -1

\* Lines read from a workload file before the parser gives up (a bound).
MaxLines == 2

GpuCounts == {4, 8}
Statuses == {0, 1, 2}

Drivers == {"run_analytical", "run_m4"}
Commands == {"cli_analytical", "cli_ns3"}

\* BINARY_NAME of each backend module.
BinaryName(b) ==
    CASE b = "analytical" -> "SimAI_analytical"
      [] b = "ns3" -> "SimAI_simulator"
      [] OTHER -> "SimAI_m4"

\* The name handed to find_binary in invocation i.
NameOf(i) == IF call[i] = "run_binary" THEN input.name ELSE BinaryName(backend[i])

\* Files the caller names.
Workload == <<"wl.txt">>
Topology == <<"topo">>
TopologyFile == Topology \o <<"topology">>
Metadata == Topology \o <<"metadata.json">>
Work == <<"work">>

\* An exception leaves a call that has no with-block open.
RaiseOut(i, e) ==
    /\ outcome' = [outcome EXCEPT ![i] = "raised"]
    /\ err' = [err EXCEPT ![i] = e]
    /\ pc' = [pc EXCEPT ![i] = "ended"]

\* The placement locals other than the list of finished invocations.
placeRest == <<result_files, primary, idx, mv, warned, moves, lastPut>>

----------------------------------------------------------------------------
(* simai simulate: cli/simulate.py *)

\* A workload line: whether it starts with "#", and the number of its first
\* "all_gpus: N" token (None when it has none).
Lines == [comment : BOOLEAN, gpus : {None} \cup GpuCounts]

RECURSIVE ParseFromAll(_, _)
\* The loop without its break: every line of the file is searched.
ParseFromAll(w, n) ==
    IF n > Len(w) THEN None
    ELSE IF w[n].gpus # None THEN w[n].gpus
    ELSE ParseFromAll(w, n + 1)

RECURSIVE ParseFrom(_, _)
\* The loop of _parse_workload_gpu_count from line n on.
ParseFrom(w, n) ==
    IF n > Len(w) THEN None
    ELSE IF w[n].gpus # None THEN w[n].gpus
    ELSE IF ~w[n].comment THEN None
    ELSE ParseFrom(w, n + 1)

\* _parse_workload_gpu_count(workload)
ParseWorkloadGpuCount(w) == ParseFrom(w, 1)

\* metadata.get("num_gpus"): None when metadata.json has no such key.
TopoGpus == input.num_gpus

\* The condition under which _validate_gpu_count raises.
GpuMismatch(workload_gpus, topo_gpus) ==
    workload_gpus # None /\ topo_gpus # None /\ workload_gpus # topo_gpus

\* from simai.backends.<backend> import run_<backend>: compiling ns3.py
\* fails, the other modules load.
ImportBackend(i) ==
    /\ i \in active
    /\ pc[i] = "import"
    /\ IF backend[i] = "ns3"
       THEN RaiseOut(i, "SyntaxError")
       ELSE /\ pc' = [pc EXCEPT ![i] = IF call[i] \in Commands THEN "cli_meta"
                                       ELSE "drv_start"]
            /\ UNCHANGED <<outcome, err>>
    /\ UNCHANGED <<fs, fixed, hostVars, placeLocals>>

\* metadata = _read_metadata(topology)
CliReadMetadata(i) ==
    /\ i \in active
    /\ pc[i] = "cli_meta"
    /\ IF IsFile(fs, Metadata)
       THEN /\ pc' = [pc EXCEPT ![i] = "cli_validate"]
            /\ UNCHANGED <<outcome, err>>
       ELSE RaiseOut(i, "BadParameter")
    /\ UNCHANGED <<fs, fixed, hostVars, placeLocals>>

\* _validate_gpu_count(workload, topology, metadata)
CliValidate(i) ==
    /\ i \in active
    /\ pc[i] = "cli_validate"
    /\ IF ~IsFile(fs, Workload)
       THEN RaiseOut(i, "FileNotFoundError")
       ELSE IF GpuMismatch(ParseWorkloadGpuCount(input.workload), TopoGpus)
       THEN RaiseOut(i, "BadParameter")
       ELSE /\ pc' = [pc EXCEPT ![i] = "cli_call"]
            /\ UNCHANGED <<outcome, err>>
    /\ UNCHANGED <<fs, fixed, hostVars, placeLocals>>

\* run_analytical(workload=workload, num_gpus=metadata["num_gpus"], ...)
CliCall(i) ==
    /\ i \in active
    /\ pc[i] = "cli_call"
    /\ IF TopoGpus = None
       THEN RaiseOut(i, "KeyError")
       ELSE /\ pc' = [pc EXCEPT ![i] = "drv_start"]
            /\ UNCHANGED <<outcome, err>>
    /\ UNCHANGED <<fs, fixed, hostVars, placeLocals>>

----------------------------------------------------------------------------
(* The drivers up to the call of run_binary *)

\* _find_simai_root(): the directory returned, NoPath for None.
FindSimaiRoot(f, e) ==
    LET has(p) == IsDir(f, p \o <<"astra-sim-alibabacloud">>)
        byPath == PathOf(Getenv(e, "SIMAI_PATH"))
        byBin == Parent(PathOf(Getenv(e, "SIMAI_BIN_PATH")))
        bin == FindBinary(f, e, BinaryName("analytical"))
        vendored == Package \o <<"_vendor">>
    IN IF Getenv(e, "SIMAI_PATH") # "" /\ has(byPath) THEN byPath
       ELSE IF Getenv(e, "SIMAI_BIN_PATH") # "" /\ has(byBin) THEN byBin
       ELSE IF bin # NoPath /\ has(Parent(Parent(bin))) THEN Parent(Parent(bin))
       ELSE IF has(vendored) THEN vendored
       ELSE NoPath

\* The models directory below a SimAI source tree.
ModelsBelow(p) ==
    p \o <<"astra-sim-alibabacloud", "astra-sim", "network_frontend", "m4", "models">>

\* _find_m4_models(): the directory returned, NoPath for None.
FindM4Models(f, e) ==
    LET vendored == Package \o <<"_vendor", "m4_models">>
        editable == ModelsBelow(<<"vendor", "simai-m4">>)
        byPath == ModelsBelow(PathOf(Getenv(e, "SIMAI_PATH")))
    IN IF IsDir(f, vendored) THEN vendored
       ELSE IF IsDir(f, editable) THEN editable
       ELSE IF Getenv(e, "SIMAI_PATH") # "" /\ IsDir(f, byPath) THEN byPath
       ELSE NoPath

\* f with node n at path p.
Put(f, p, n) == [q \in DOMAIN f \cup {p} |-> IF q = p THEN n ELSE f[q]]

----------------------------------------------------------------------------
(* The argument lists of the drivers *)

\* The optional parameters of run_analytical and their flags, in the order
\* the code appends them.
OptParams ==
    <<[name |-> "nvlink_bandwidth", flag |-> "-nv"],
      [name |-> "nic_bandwidth", flag |-> "-nic"],
      [name |-> "nics_per_server", flag |-> "-n_p_s"],
      [name |-> "busbw", flag |-> "-busbw"],
      [name |-> "gpu_type", flag |-> "-g_type"],
      [name |-> "dp_overlap", flag |-> "-dp_o"],
      [name |-> "tp_overlap", flag |-> "-tp_o"],
      [name |-> "ep_overlap", flag |-> "-ep_o"],
      [name |-> "pp_overlap", flag |-> "-pp_o"]>>
OptNames == {OptParams[k].name : k \in 1..Len(OptParams)}

\* Path.stem of the workload file's name.
Stem(name) == IF name = "wl.txt" THEN "wl" ELSE name

RECURSIVE OptArgs(_, _)
\* The flags and values of the optional parameters from the k-th on, for
\* the set opts of parameters that are not None.
OptArgs(opts, k) ==
    IF k > Len(OptParams) THEN <<>>
    ELSE (IF OptParams[k].name \in opts THEN <<OptParams[k].flag, "value">> ELSE <<>>)
         \o OptArgs(opts, k + 1)

\* The argument list with -r passed only when the caller gave a prefix.
AnalyticalArgsGivenOnly(opts, given, prefix) ==
    <<"-w", "/wl.txt", "-g", "8", "-g_p_s", "8">> \o OptArgs(opts, 1)
    \o (IF given THEN <<"-r", prefix>> ELSE <<>>)

\* run_analytical: args, for a caller that gave result_prefix or not.
AnalyticalArgs(opts, given, prefix) ==
    <<"-w", "/wl.txt", "-g", "8", "-g_p_s", "8">> \o OptArgs(opts, 1)
    \o <<"-r", IF given THEN prefix ELSE Stem(Last(Workload))>>

\* run_m4: args
M4Args == <<"-t", "1", "-w", "/wl.txt", "-n", "tmpdir/topology_m4",
            "-o", "tmpdir/output">>

\* _find_libtorch_lib_dir(): the lib directory of the torch package, "" for
\* None (torch cannot be imported, or has no lib directory).
FindLibtorchLibDir == input.libtorch

\* run_m4's env: LD_LIBRARY_PATH with the library directory put first.
M4Env(e) ==
    LET libtorch_dir == FindLibtorchLibDir
        existing_ld == Getenv(e, "LD_LIBRARY_PATH")
    IN IF libtorch_dir # ""
       THEN [v \in {"LD_LIBRARY_PATH"} |->
               IF existing_ld # "" THEN libtorch_dir \o ":" \o existing_ld
               ELSE libtorch_dir]
       ELSE NoEnv

\* What a driver does before it opens its with-block: run_analytical builds
\* args, run_m4 builds the environment overrides.
DrvPrepare(i) ==
    /\ i \in active
    /\ pc[i] = "drv_start"
    /\ args' = [args EXCEPT ![i] =
                  IF backend[i] = "analytical"
                  THEN AnalyticalArgs(input.opts, input.prefix_given,
                                      input.result_prefix)
                  ELSE @]
    /\ env' = [env EXCEPT ![i] = IF backend[i] = "m4" THEN M4Env(environ) ELSE @]
    /\ pc' = [pc EXCEPT ![i] = "drv_enter"]
    /\ UNCHANGED <<fs, fixed, environ, binary, spawned, child, errcode, mkdtemps,
                   outcome, err, placeLocals, printed>>

\* with tempfile.TemporaryDirectory(prefix=...) as tmpdir: entering the block.
DrvEnter(i) ==
    /\ i \in active
    /\ pc[i] = "drv_enter"
    /\ fs' = Put(fs, Tmp(i), DirNode)
    /\ mkdtemps' = [mkdtemps EXCEPT ![i] = @ + 1]
    /\ pc' = [pc EXCEPT ![i] = IF backend[i] = "m4" THEN "m4_convert" ELSE "an_setup"]
    /\ UNCHANGED <<fixed, environ, binary, spawned, child, errcode, args, outcome,
                   err, placeLocals, env, printed>>

\* run_analytical: (tmppath / "results").mkdir() and the symlink to the
\* auxiliary data.
AnSetup(i) ==
    /\ i \in active
    /\ pc[i] = "an_setup"
    /\ LET made == Put(fs, Tmp(i) \o <<"results">>, DirNode)
           root == FindSimaiRoot(fs, environ)
           src == root \o <<"astra-sim-alibabacloud">>
       IN fs' = IF root # NoPath /\ IsDir(fs, src)
                THEN Put(made, Tmp(i) \o <<"astra-sim-alibabacloud">>, LinkNode(i, src))
                ELSE made
    /\ pc' = [pc EXCEPT ![i] = "call_run"]
    /\ UNCHANGED <<fixed, hostVars, outcome, err, placeLocals>>

\* run_m4: _convert_topology(topology_file, converted_topo).  open(dst, "w")
\* comes after open(src), and a malformed line raises after dst was created.
M4Convert(i) ==
    /\ i \in active
    /\ pc[i] = "m4_convert"
    /\ IF ~IsFile(fs, TopologyFile)
       THEN /\ fs' = fs
            /\ Raise(i, "FileNotFoundError")
       ELSE /\ fs' = Put(fs, Tmp(i) \o <<"topology_m4">>,
                         FileNode(Content(i, "topology_m4")))
            /\ IF input.topo = "malformed"
               THEN Raise(i, "ValueError")
               ELSE /\ pc' = [pc EXCEPT ![i] = "m4_setup"]
                    /\ UNCHANGED <<outcome, err, finished>>
    /\ UNCHANGED <<fixed, hostVars, placeRest>>

\* run_m4: the symlink to the model files, binary_output_dir.mkdir(), args.
M4Setup(i) ==
    /\ i \in active
    /\ pc[i] = "m4_setup"
    /\ LET models == FindM4Models(fs, environ)
           target == ModelsBelow(Tmp(i))
           linked == IF models # NoPath
                     THEN Put(Mkdir(fs, Parent(target)), target, LinkNode(i, models))
                     ELSE fs
       IN /\ fs' = Put(linked, Tmp(i) \o <<"output">>, DirNode)
          /\ printed' = [printed EXCEPT ![i] =
                           IF models # NoPath THEN @ ELSE @ \cup {"m4 model files not found"}]
    /\ args' = [args EXCEPT ![i] = M4Args]
    /\ pc' = [pc EXCEPT ![i] = "call_run"]
    /\ UNCHANGED <<fixed, environ, binary, spawned, child, errcode, mkdtemps,
                   outcome, err, placeLocals, env>>

----------------------------------------------------------------------------
(* run_binary: the call, the resolution, the process *)

\* The parameters run_binary declares, and the keywords each call site names.
RunBinaryParams == {"name", "args", "cwd", "env"}
CallKeywords(b) ==
    IF b = "analytical" THEN {"cwd", "verbose"} ELSE {"cwd", "env", "verbose"}

\* A call binds when every keyword it passes is a declared parameter.
Binds(b) == CallKeywords(b) \subseteq RunBinaryParams

\* Whether run_binary was called from inside a driver's with-block.
InWith(i) == call[i] # "run_binary"

\* An exception leaves run_binary.
RbRaise(i, e) ==
    IF InWith(i)
    THEN Raise(i, e)
    ELSE RaiseOut(i, e) /\ finished' = finished

\* run_binary(BINARY_NAME, args, cwd=tmpdir, ..., verbose=verbose) in a driver.
CallRunBinary(i) ==
    /\ i \in active
    /\ pc[i] = "call_run"
    /\ IF Binds(backend[i])
       THEN /\ pc' = [pc EXCEPT ![i] = "rb_resolve"]
            /\ UNCHANGED <<outcome, err, finished>>
       ELSE Raise(i, "TypeError")
    /\ UNCHANGED <<fs, fixed, hostVars, placeRest>>

\* binary = find_binary(name)
RbResolve(i) ==
    /\ i \in active
    /\ pc[i] = "rb_resolve"
    /\ LET b == FindBinary(fs, environ, NameOf(i))
       IN IF b = NoPath
          THEN /\ binary' = binary
               /\ RbRaise(i, "FileNotFoundError")
          ELSE /\ binary' = [binary EXCEPT ![i] = b]
               /\ pc' = [pc EXCEPT ![i] = "rb_spawn"]
               /\ UNCHANGED <<outcome, err, finished>>
    /\ UNCHANGED <<fs, fixed, environ, spawned, child, errcode, mkdtemps, args,
                   placeRest, env, printed>>

\* The cwd and env arguments of the call in invocation i.
CwdArg(i) == IF InWith(i) THEN Tmp(i) ELSE Work
EnvArg(i) ==
    IF ~InWith(i) THEN input.env
    ELSE IF "env" \in CallKeywords(backend[i]) THEN env[i]
    ELSE NoEnv

\* subprocess.run(cmd, cwd=cwd, env=run_env, check=True): the process starts.
RbSpawn(i) ==
    /\ i \in active
    /\ pc[i] = "rb_spawn"
    /\ child' = [child EXCEPT ![i] = [cmd |-> binary[i], argv |-> args[i],
                                      cwd |-> CwdArg(i),
                                      env |-> RunEnv(environ, EnvArg(i))]]
    /\ spawned' = [spawned EXCEPT ![i] = @ + 1]
    /\ pc' = [pc EXCEPT ![i] = "rb_wait"]
    /\ UNCHANGED <<fs, fixed, environ, binary, errcode, mkdtemps, args, outcome, err,
                   placeLocals, env, printed>>

\* Where the binary of invocation i writes its files.
WritesTo(i) ==
    IF ~InWith(i) THEN Work
    ELSE IF backend[i] = "analytical" THEN Tmp(i) \o <<"results">>
    ELSE IF backend[i] = "m4" THEN Tmp(i) \o <<"output">>
    ELSE Tmp(i)

\* f after the process of invocation i has written the files it makes.
Ran(f, i) ==
    [q \in DOMAIN f \cup {WritesTo(i) \o <<n>> : n \in input.made} |->
        IF \E n \in input.made : q = WritesTo(i) \o <<n>>
        THEN FileNode(Content(i, Last(q)))
        ELSE f[q]]

\* subprocess.run without check=True: the exit status is not looked at.
RbWaitUnchecked(i) ==
    /\ i \in active
    /\ pc[i] = "rb_wait"
    /\ fs' = Ran(fs, i)
    /\ errcode' = errcode
    /\ IF InWith(i)
       THEN /\ pc' = [pc EXCEPT ![i] = "collect"]
            /\ UNCHANGED <<outcome, err, finished>>
       ELSE /\ outcome' = [outcome EXCEPT ![i] = "returned"]
            /\ pc' = [pc EXCEPT ![i] = "ended"]
            /\ UNCHANGED <<err, finished>>
    /\ UNCHANGED <<fixed, environ, binary, spawned, child, mkdtemps, args, placeRest, env, printed>>

\* subprocess.run(..., check=True): the process ends; a non-zero status
\* raises CalledProcessError, status 0 returns to the caller.
RbWait(i) ==
    /\ i \in active
    /\ pc[i] = "rb_wait"
    /\ fs' = Ran(fs, i)
    /\ IF input.status # 0
       THEN /\ errcode' = [errcode EXCEPT ![i] = input.status]
            /\ RbRaise(i, "CalledProcessError")
       ELSE /\ errcode' = errcode
            /\ IF InWith(i)
               THEN /\ pc' = [pc EXCEPT ![i] = "collect"]
                    /\ UNCHANGED <<outcome, err, finished>>
               ELSE /\ outcome' = [outcome EXCEPT ![i] = "returned"]
                    /\ pc' = [pc EXCEPT ![i] = "ended"]
                    /\ UNCHANGED <<err, finished>>
    /\ UNCHANGED <<fixed, environ, binary, spawned, child, mkdtemps, args, placeRest, env, printed>>

----------------------------------------------------------------------------
(* Initial states: a caller about to use one entry point *)

\* Directory entries for p and its ancestors.
Dirs(p) == {<<q, DirNode>> : q \in Prefixes(p)}
\* A file at p, owned by nobody's invocation, in existing directories.
FileAt(p) == Dirs(Parent(p)) \cup {<<p, FileNode(Content(0, Last(p)))>>}

\* The installed package, the directories the environment can name, and the
\* candidate binaries that exist.
HostEntries(name, bundled, envCand, pathCand) ==
    {<<Root, DirNode>>} \cup Dirs(Package) \cup Dirs(PathOf("/usr/bin"))
    \cup Dirs(PathOf("/opt/simai/bin")) \cup Dirs(Work)
    \cup (IF bundled THEN FileAt(Bundled(name)) ELSE {})
    \cup (IF envCand THEN FileAt(PathOf("/opt/simai/bin") \o <<name>>) ELSE {})
    \cup (IF pathCand THEN FileAt(PathOf("/usr/bin") \o <<name>>) ELSE {})

\* The auxiliary data trees that exist: the vendored ones, the ones below
\* the directory SIMAI_PATH names, both or none.
AuxEntries(aux) ==
    (IF aux \in {"vendored", "both"}
     THEN FileAt(Package \o <<"_vendor", "astra-sim-alibabacloud", "ratio.csv">>)
          \cup FileAt(Package \o <<"_vendor", "m4_models", "model.pt">>)
     ELSE {})
    \cup
    (IF aux \in {"simai_path", "both"}
     THEN FileAt(PathOf("/data/simai") \o <<"astra-sim-alibabacloud", "ratio.csv">>)
          \cup FileAt(ModelsBelow(PathOf("/data/simai")) \o <<"model.pt">>)
     ELSE {})

\* os.environ of the caller.
Environ(binVar, aux, log) ==
    LET dom == {"PATH", "HOME"}
               \cup (IF binVar = "unset" THEN {} ELSE {"SIMAI_BIN_PATH"})
               \cup (IF aux \in {"simai_path", "both"} THEN {"SIMAI_PATH"} ELSE {})
               \cup (IF log THEN {"AS_LOG_LEVEL"} ELSE {})
    IN [v \in dom |->
          CASE v = "PATH" -> "/usr/bin"
            [] v = "HOME" -> "/home/user"
            [] v = "SIMAI_BIN_PATH" -> IF binVar = "set" THEN "/opt/simai/bin" ELSE ""
            [] v = "SIMAI_PATH" -> "/data/simai"
            [] OTHER -> "1"]

\* e with LD_LIBRARY_PATH set by the caller's shell when ld holds.
WithLd(e, ld) ==
    IF ld
    THEN [v \in DOMAIN e \cup {"LD_LIBRARY_PATH"} |->
            IF v = "LD_LIBRARY_PATH" THEN "/usr/lib" ELSE e[v]]
    ELSE e

\* The override dictionaries a caller of run_binary passes; the empty one
\* stands for env=None as well.
Overrides ==
    {[v \in S |-> IF v = "AS_LOG_LEVEL" THEN "0" ELSE "5"] :
        S \in SUBSET {"AS_LOG_LEVEL", "AS_SEND_LAT"}}

Workloads == UNION {[1..n -> Lines] : n \in 0..MaxLines}

\* A direct call of run_binary(name, args, cwd=Work, env=over).
InitDirect ==
    /\ active = {1}
    /\ \E bundled \in BOOLEAN, envCand \in BOOLEAN, pathCand \in BOOLEAN,
          binVar \in {"unset", "empty", "set"}, log \in BOOLEAN,
          over \in Overrides, status \in Statuses, made \in SUBSET ResultNames :
          /\ fs = FsOf(HostEntries(BinaryName("analytical"), bundled, envCand, pathCand)
                       \cup OutEntries("results", TRUE, "dir",
                                       [n \in ResultNames |-> "file"]))
          /\ environ = Environ(binVar, "none", log)
          /\ input = [NoInput EXCEPT !.name = BinaryName("analytical"), !.env = over,
                                     !.status = status, !.made = made]
    /\ InitLocals([i \in Invs |-> "analytical"], "results", "rb_resolve")
    /\ call = [i \in Invs |-> "run_binary"]
    /\ fs0 = fs
    /\ environ0 = environ

\* A call of run_analytical, run_ns3 or run_m4 with an output path.
InitDriver ==
    /\ active = {1}
    /\ \E b \in {"analytical", "ns3", "m4"}, bundled \in BOOLEAN,
          envCand \in BOOLEAN, pathCand \in BOOLEAN,
          binVar \in {"unset", "empty", "set"},
          aux \in {"none", "vendored", "simai_path", "both"},
          topo \in {"ok", "missing", "malformed"}, libtorch \in {"", "/torch/lib"},
          tname \in TargetNames, preTarget \in {"none", "file"},
          send_latency \in {None, 5}, nvls \in BOOLEAN, pxn \in BOOLEAN,
          ld \in BOOLEAN :
          /\ b # "m4" => topo = "ok" /\ libtorch = "" /\ ~ld
          /\ b # "ns3" => send_latency = None /\ ~nvls /\ ~pxn
          /\ b = "ns3" => aux = "none" /\ tname = "results" /\ preTarget = "none"
          /\ fs = FsOf(HostEntries(BinaryName(b), bundled, envCand, pathCand)
                       \cup AuxEntries(aux)
                       \cup FileAt(Workload)
                       \cup (IF topo = "missing" THEN Dirs(Topology)
                             ELSE FileAt(TopologyFile))
                       \cup OutEntries(tname, TRUE, preTarget,
                                       [n \in ResultNames |-> "none"]))
          /\ environ = WithLd(Environ(binVar, aux, FALSE), ld)
          /\ input = [NoInput EXCEPT !.topo = topo, !.libtorch = libtorch,
                                     !.send_latency = send_latency,
                                     !.nvls = nvls, !.pxn = pxn]
          /\ InitLocals([i \in Invs |-> b], tname,
                        IF b = "ns3" THEN "import" ELSE "drv_start")
          /\ call = [i \in Invs |-> IF b = "analytical" THEN "run_analytical"
                                    ELSE IF b = "ns3" THEN "run_ns3" ELSE "run_m4"]
    /\ fs0 = fs
    /\ environ0 = environ

\* simai simulate analytical|ns3 -w wl.txt -n topo -o out/results
InitCli ==
    /\ active = {1}
    /\ \E c \in Commands, bundled \in BOOLEAN, w \in Workloads,
          wl \in BOOLEAN, meta \in BOOLEAN, n \in {None} \cup GpuCounts :
          /\ fs = FsOf(HostEntries(BinaryName("analytical"), bundled, FALSE, TRUE)
                       \cup (IF wl THEN FileAt(Workload) ELSE {})
                       \cup FileAt(TopologyFile)
                       \cup (IF meta THEN FileAt(Metadata) ELSE {})
                       \cup OutEntries("results", TRUE, "none",
                                       [m \in ResultNames |-> "none"]))
          /\ environ = Environ("unset", "none", FALSE)
          /\ input = [NoInput EXCEPT !.workload = w, !.num_gpus = n]
          /\ InitLocals([i \in Invs |-> IF c = "cli_ns3" THEN "ns3" ELSE "analytical"],
                        "results", "import")
          /\ call = [i \in Invs |-> c]
    /\ fs0 = fs
    /\ environ0 = environ

\* A call of run_analytical with any choice of its optional parameters.
InitArgs ==
    /\ active = {1}
    /\ \E opts \in SUBSET OptNames, given \in BOOLEAN, prefix \in {"", "run1"} :
          /\ ~given => prefix = ""
          /\ input = [NoInput EXCEPT !.opts = opts, !.prefix_given = given,
                                     !.result_prefix = prefix]
    /\ fs = FsOf(HostEntries(BinaryName("analytical"), TRUE, FALSE, FALSE)
                 \cup FileAt(Workload)
                 \cup OutEntries("results", TRUE, "none",
                                 [n \in ResultNames |-> "none"]))
    /\ environ = Environ("unset", "none", FALSE)
    /\ InitLocals([i \in Invs |-> "analytical"], "results", "drv_start")
    /\ call = [i \in Invs |-> "run_analytical"]
    /\ fs0 = fs
    /\ environ0 = environ

\* The symlink a driver puts into its temporary directory when it finds the
\* vendored auxiliary data (analytical.py 119-124, m4.py 134-145).
LinkEntries(i, b) ==
    IF b = "analytical"
    THEN {<<Tmp(i) \o <<"astra-sim-alibabacloud">>,
            LinkNode(i, Package \o <<"_vendor", "astra-sim-alibabacloud">>)>>}
    ELSE {<<q, DirNode>> : q \in {p \in Prefixes(Parent(ModelsBelow(Tmp(i)))) :
                                    Len(p) > Len(Tmp(i))}}
         \cup {<<ModelsBelow(Tmp(i)), LinkNode(i, Package \o <<"_vendor", "m4_models">>)>>}

\* The placement block entered after a run whose temporary directory holds
\* the symlink to the auxiliary data.
InitLinked ==
    /\ active = {1}
    /\ \E b \in {"analytical", "m4"}, tname \in TargetNames,
          made \in SUBSET ResultNames, where \in {"output", "cwd"} :
          /\ b # "m4" => where = "output"
          /\ fs = FsOf(HostEntries(BinaryName(b), TRUE, FALSE, FALSE)
                       \cup AuxEntries("vendored")
                       \cup FileAt(Workload)
                       \cup FileAt(TopologyFile)
                       \cup SandboxEntries(1, b, made, where)
                       \cup LinkEntries(1, b)
                       \cup OutEntries(tname, TRUE, "none",
                                       [n \in ResultNames |-> "none"]))
          /\ InitInv([i \in Invs |-> b], tname)
    /\ fs0 = fs

Init == InitDirect \/ InitDriver \/ InitCli \/ InitArgs \/ InitPlace \/ InitLinked

Next ==
    \E i \in Invs :
        \/ ImportBackend(i)
        \/ CliReadMetadata(i)
        \/ CliValidate(i)
        \/ CliCall(i)
        \/ DrvPrepare(i)
        \/ DrvEnter(i)
        \/ AnSetup(i)
        \/ M4Convert(i)
        \/ M4Setup(i)
        \/ CallRunBinary(i)
        \/ RbResolve(i)
        \/ RbSpawn(i)
        \/ RbWait(i)
        \/ Collect(i)
        \/ Classify(i)
        \/ FileMkdir(i)
        \/ FileLoop(i)
        \/ DirMkdir(i)
        \/ DirLoop(i)
        \/ DirIsDir(i)
        \/ DirRmtree(i)
        \/ DirUnlink(i)
        \/ MoveCheck(i)
        \/ MoveRename(i)
        \/ WithExit(i)

Spec == Init /\ [][Next]_vars

----------------------------------------------------------------------------
(* Properties of the entry points *)

\* Which of the three candidates for the binary of invocation i existed when
\* the call began.
BundledExists(i) ==
    IsFile(fs0, <<"site-packages", "simai", "_binaries", NameOf(i)>>)
EnvExists(i) ==
    /\ "SIMAI_BIN_PATH" \in DOMAIN environ0
    /\ environ0["SIMAI_BIN_PATH"] = "/opt/simai/bin"
    /\ IsFile(fs0, <<"opt", "simai", "bin", NameOf(i)>>)
PathExists(i) ==
    /\ environ0["PATH"] = "/usr/bin"
    /\ IsFile(fs0, <<"usr", "bin", NameOf(i)>>)

\* The output location is as it was when the call began.
OutUnchanged ==
    \A q \in Under(fs0, Out) \cup Under(fs, Out) :
        q \in DOMAIN fs /\ q \in DOMAIN fs0 /\ fs[q] = fs0[q]

\* find_binary has returned in invocation i.
Resolved(i) == call[i] = "run_binary" /\ pc[i] \in {"rb_spawn", "rb_wait"}

\* C4: find_binary returns the bundled binary whenever it exists, otherwise
\* the one under the SIMAI_BIN_PATH directory whenever that exists, otherwise
\* the one found on PATH: for every combination of existing candidates the
\* first existing one in this order is returned.
C4_FindBinaryPrecedence ==
    \A i \in active :
        Resolved(i) =>
            /\ BundledExists(i) =>
                 binary[i] = <<"site-packages", "simai", "_binaries", NameOf(i)>>
            /\ ~BundledExists(i) /\ EnvExists(i) =>
                 binary[i] = <<"opt", "simai", "bin", NameOf(i)>>
            /\ ~BundledExists(i) /\ ~EnvExists(i) /\ PathExists(i) =>
                 binary[i] = <<"usr", "bin", NameOf(i)>>

\* All three candidates exist and find_binary has returned the bundled one.
C4_Witness ==
    \E i \in active :
        /\ Resolved(i)
        /\ BundledExists(i) /\ EnvExists(i) /\ PathExists(i)
        /\ binary[i] = Bundled(NameOf(i))

NoCandidate(i) == ~BundledExists(i) /\ ~EnvExists(i) /\ ~PathExists(i)

\* C5: when no candidate binary exists in any of the three locations,
\* resolution fails with FileNotFoundError; a driver invocation in that
\* situation starts no process, leaves the output location as it was and
\* leaves no temporary directory behind.
C5_NoCandidate ==
    \A i \in active :
        call[i] # "placement" /\ NoCandidate(i) =>
            /\ spawned[i] = 0
            /\ pc[i] = "ended" =>
                 /\ call[i] = "run_binary" =>
                      outcome[i] = "raised" /\ err[i] = "FileNotFoundError"
                 /\ OutUnchanged
                 /\ Under(fs, Tmp(i)) = {}

\* A driver invocation has ended where no candidate exists, after it made
\* its temporary directory.
C5_Witness ==
    \E i \in active :
        /\ call[i] \in Drivers
        /\ NoCandidate(i)
        /\ pc[i] = "ended"
        /\ mkdtemps[i] = 1

\* C6: the temporary directory made for a driver invocation does not exist
\* once the invocation has ended, whichever way it ended.
C6_SandboxGone ==
    \A i \in active : pc[i] = "ended" => Under(fs, Tmp(i)) = {}

\* An invocation has ended by an exception raised while results were being
\* placed, and its temporary directory held files before.
C6_Witness ==
    \E i \in active :
        /\ pc[i] = "ended"
        /\ outcome[i] = "raised"
        /\ moves[i] > 0
        /\ Under(fs0, Tmp(i)) # {}
        /\ Under(fs, Tmp(i)) = {}

\* C7: when the process ends with a non-zero status the call raises
\* CalledProcessError carrying that status, the process is started once
\* only, no result is moved and the output location stays as it was.
C7_NonZeroExit ==
    \A i \in active :
        spawned[i] > 0 /\ pc[i] # "rb_wait" /\ input.status # 0 =>
            /\ outcome[i] = "raised"
            /\ err[i] = "CalledProcessError"
            /\ errcode[i] = input.status
            /\ spawned[i] = 1
            /\ moves[i] = 0
            /\ OutUnchanged

\* The process wrote result files and ended with status 2; the call has ended.
C7_Witness ==
    \E i \in active :
        /\ spawned[i] = 1
        /\ pc[i] = "ended"
        /\ input.status = 2
        /\ input.made # {}
        /\ errcode[i] = 2

\* C8: the environment of the process is the caller's whole environment
\* overlaid with the overrides: overridden variables have the override's
\* value, all other inherited variables keep theirs, none is dropped, and
\* os.environ itself is unchanged.
C8_EnvOverlay ==
    /\ environ = environ0
    /\ \A i \in active :
         call[i] = "run_binary" /\ spawned[i] > 0 =>
            /\ \A v \in DOMAIN input.env :
                 v \in DOMAIN child[i].env /\ child[i].env[v] = input.env[v]
            /\ \A v \in DOMAIN environ0 \ DOMAIN input.env :
                 v \in DOMAIN child[i].env /\ child[i].env[v] = environ0[v]
            /\ DOMAIN child[i].env = DOMAIN environ0 \cup DOMAIN input.env

\* A process was started with an override of an inherited variable, an
\* override of a variable not inherited, and inherited variables besides.
C8_Witness ==
    \E i \in active :
        /\ spawned[i] = 1
        /\ "AS_LOG_LEVEL" \in DOMAIN environ0 /\ "AS_LOG_LEVEL" \in DOMAIN input.env
        /\ environ0["AS_LOG_LEVEL"] # input.env["AS_LOG_LEVEL"]
        /\ "AS_SEND_LAT" \in DOMAIN input.env
        /\ child[i].env["HOME"] = "/home/user"

\* The workload header declares a GPU count other than metadata's num_gpus.
Mismatched ==
    /\ IsFile(fs0, Workload)
    /\ IsFile(fs0, Metadata)
    /\ input.num_gpus \in GpuCounts
    /\ \E n \in 1..Len(input.workload) :
         /\ input.workload[n].gpus \in GpuCounts \ {input.num_gpus}
         /\ \A m \in 1..(n - 1) :
              input.workload[m].comment /\ input.workload[m].gpus = None

\* C9: when the workload header declares a GPU count that differs from the
\* topology metadata's num_gpus, the simulate command ends with BadParameter
\* before a temporary directory is made and before a process is started.
C9_GpuMismatchRejected ==
    \A i \in active :
        call[i] \in Commands /\ pc[i] = "ended" /\ Mismatched =>
            /\ outcome[i] = "raised"
            /\ err[i] = "BadParameter"
            /\ mkdtemps[i] = 0
            /\ spawned[i] = 0

----------------------------------------------------------------------------
(* Classification of the output target *)

\* The branch of the placement code invocation i is in.
Branch(i) ==
    IF pc[i] \in {"f_mkdir", "f_loop"}
       \/ (pc[i] \in {"mv_check", "mv_rename"} /\ mv[i].ret = "f_loop")
    THEN "file"
    ELSE IF pc[i] \in {"d_mkdir", "d_loop", "d_isdir", "d_rmtree", "d_unlink"}
            \/ (pc[i] \in {"mv_check", "mv_rename"} /\ mv[i].ret = "d_loop")
    THEN "dir"
    ELSE "none"

\* One step of invocation i respects the classification: a branch is entered
\* from the classification point only, before any move, the file branch
\* exactly when the path has a suffix and is not an existing directory; and
\* a branch once entered is left only by leaving the with-block.
ClassifiedOnce(i) ==
    /\ Branch(i) = "none" /\ Branch(i)' # "none" =>
          /\ pc[i] = "classify"
          /\ moves[i] = 0
          /\ Branch(i)' = "file" <=>
                (HasSuffix(Last(output_path[i])) /\ ~IsDir(fs, output_path[i]))
    /\ Branch(i) # "none" =>
          \/ Branch(i)' = Branch(i)
          \/ pc'[i] = "with_exit"

----------------------------------------------------------------------------
(* _convert_topology (backends/m4.py) *)

\* Lines of a topology file the converter is run on (a bound).
MaxTopoLines == 4

\* float(x) / 1e9, float(x) * 1e3 and the precision of the "g" format.
GbpsShift == 9
MsShift == 3
SigDigits == 6

\* A field of a line.  A field spelled as a decimal number has w = "" and
\* the value m * 10^e, m without trailing zeros; any other field is the word
\* w.  u is the unit suffix the converter appends.
Word(w) == [w |-> w, m |-> 0, e |-> 0, u |-> ""]
Num(m, e) == [w |-> "", m |-> m, e |-> e, u |-> ""]

\* float(field) succeeds on numbers and raises ValueError on words.
Parses(f) == f.w = ""

RECURSIVE Pow10(_)
Pow10(k) == IF k = 0 THEN 1 ELSE 10 * Pow10(k - 1)

RECURSIVE NumDigits(_)
NumDigits(m) == IF m < 10 THEN 1 ELSE 1 + NumDigits(m \div 10)

RECURSIVE Norm(_, _)
\* m * 10^e written without trailing zeros in m.
Norm(m, e) == IF m # 0 /\ m % 10 = 0 THEN Norm(m \div 10, e + 1)
              ELSE [m |-> m, e |-> e]

\* f"{x:g}": x rounded to SigDigits significant digits, trailing zeros
\* removed.
FormatG(m, e) ==
    LET d == NumDigits(m) IN
    IF d <= SigDigits THEN Norm(m, e)
    ELSE LET q == Pow10(d - SigDigits)
         IN Norm((m + q \div 2) \div q, e + d - SigDigits)

\* f"{float(parts[2]) / 1e9:g}Gbps" and f"{float(parts[3]) * 1e3:g}ms"
Gbps(f) ==
    LET r == FormatG(f.m, f.e - GbpsShift)
    IN [w |-> "", m |-> r.m, e |-> r.e, u |-> "Gbps"]
Ms(f) ==
    LET r == FormatG(f.m, f.e + MsShift)
    IN [w |-> "", m |-> r.m, e |-> r.e, u |-> "ms"]

\* The line written for a line of five or more fields.
Converted(line) ==
    [fields |-> <<line.fields[1], line.fields[2], Gbps(line.fields[3]),
                  Ms(line.fields[4]), line.fields[5]>>,
     sep |-> " ", eol |-> "LF"]

\* with open(src) as f: lines = f.readlines(); open(dst, "w").  Text mode
\* reads every line ending as "\n".
ConvRead ==
    /\ cstate = "idle"
    /\ topo_src # <<>>
    /\ lines' = [n \in DOMAIN topo_src |->
                   [topo_src[n] EXCEPT !.eol = IF @ = "CRLF" THEN "LF" ELSE @]]
    /\ written' = <<>>
    /\ ln' = 0
    /\ cstate' = "loop"
    /\ UNCHANGED topo_src
    /\ UNCHANGED <<orchVars, pathVars, genVars>>

\* The body of "for i, line in enumerate(lines)" for i = ln.
ConvLine ==
    /\ cstate = "loop"
    /\ ln < Len(lines)
    /\ LET line == lines[ln + 1] IN
       IF ln < 2 \/ Len(line.fields) < 5
       THEN /\ written' = Append(written, line)
            /\ ln' = ln + 1
            /\ cstate' = cstate
       ELSE IF ~Parses(line.fields[3]) \/ ~Parses(line.fields[4])
       THEN /\ cstate' = "raised"
            /\ UNCHANGED <<written, ln>>
       ELSE /\ written' = Append(written, Converted(line))
            /\ ln' = ln + 1
            /\ cstate' = cstate
    /\ UNCHANGED <<topo_src, lines>>
    /\ UNCHANGED <<orchVars, pathVars, genVars>>

\* The loop ends and dst is closed.
ConvClose ==
    /\ cstate = "loop"
    /\ ln = Len(lines)
    /\ cstate' = "done"
    /\ UNCHANGED <<topo_src, lines, written, ln>>
    /\ UNCHANGED <<orchVars, pathVars, genVars>>

\* Fields of topology lines: node ids, bandwidths in bps, latencies in
\* seconds, an error rate.
BwFields == {Num(25, 9), Num(1234567, 3), Word("fast")}
LatFields == {Num(5, -7), Num(1234567, -12), Word("soon")}

\* The first two lines of a file: a header and the list of switch ids.
HeaderLines ==
    {<<Word("nodes"), Word("gpus"), Word("nvswitches"), Word("switches"),
       Word("links"), Word("H100")>>,
     <<Word("n8"), Word("n9")>>}

\* The lines after them: edges, well-formed or not, and trailer lines.
BodyLines ==
    {<<>>, <<Word("n0"), Word("n8"), Num(25, 9), Num(5, -7)>>,
     <<Word("n0"), Word("n8"), Num(25, 9), Num(5, -7), Word("0"), Word("extra")>>}
    \cup {<<Word("n0"), Word("n8"), b, l, Word("0")>> : b \in BwFields, l \in LatFields}

\* Files of k lines with the line ending style, the last line with eol last.
FilesOf(k, style, last) ==
    {[n \in 1..k |-> [fields |-> fl[n], sep |-> "TAB",
                      eol |-> IF n = k THEN last ELSE style]] :
        fl \in {g \in [1..k -> HeaderLines \cup BodyLines] :
                  \A n \in 1..k : (n <= 2) <=> (g[n] \in HeaderLines)}}

\* _convert_topology(src, dst) is called on a file of one to MaxTopoLines lines.
InitConv ==
    /\ active = {}
    /\ fs = FsOf({<<Root, DirNode>>})
    /\ fs0 = fs
    /\ InitOrch([i \in Invs |-> "m4"], "results", "absent")
    /\ call = [i \in Invs |-> "convert"]
    /\ input = NoInput
    /\ environ = [v \in {} |-> ""]
    /\ environ0 = environ
    /\ \E k \in 1..MaxTopoLines, style \in {"LF", "CRLF"}, last \in {"LF", "CRLF", "none"} :
          /\ last \in {style, "none"}
          /\ topo_src \in FilesOf(k, style, last)
    /\ lines = <<>>
    /\ written = <<>>
    /\ ln = 0
    /\ cstate = "idle"
    /\ PathIdle
    /\ GenIdle

NextConv == ConvRead \/ ConvLine \/ ConvClose

SpecConv == InitConv /\ [][NextConv]_vars

----------------------------------------------------------------------------
(* Properties of _convert_topology *)

\* The call of _convert_topology has ended, by return or by exception.
ConvEnded == cstate \in {"done", "raised"}

\* C12: the converter emits exactly one output line per input line in the
\* same order: lines 0 and 1 and every later line of fewer than 5 fields are
\* identical to the input, and in every later line of 5 or more fields the
\* source node, destination node and error-rate fields are unchanged.
C12_LinePreservation ==
    ConvEnded =>
        /\ Len(written) = Len(topo_src)
        /\ \A n \in 1..Len(topo_src) :
              IF n <= 2 \/ Len(topo_src[n].fields) < 5
              THEN written[n] = topo_src[n]
              ELSE /\ written[n].fields[1] = topo_src[n].fields[1]
                   /\ written[n].fields[2] = topo_src[n].fields[2]
                   /\ written[n].fields[5] = topo_src[n].fields[5]

\* a and b, numbers m * 10^e, differ by at most one part in 10^9 of b.
Close(a, b) ==
    LET lo == IF a.e < b.e THEN a.e ELSE b.e
        va == a.m * Pow10(a.e - lo)
        vb == b.m * Pow10(b.e - lo)
        diff == IF va < vb THEN vb - va ELSE va - vb
    IN diff = 0 \/ vb \div diff >= 1000000000

\* C13: for every well-formed line the bandwidth is rendered as bps / 1e9
\* with the suffix Gbps and the latency as seconds * 1e3 with the suffix ms,
\* and undoing the scaling of the rendered values gives back the original
\* values within floating-point tolerance.
C13_UnitRoundTrip ==
    \A n \in 1..Len(written) :
        n > 2 /\ Len(lines[n].fields) >= 5 =>
            LET bw == written[n].fields[3]
                lat == written[n].fields[4]
            IN /\ bw.u = "Gbps"
               /\ Close([m |-> bw.m, e |-> bw.e + 9], lines[n].fields[3])
               /\ lat.u = "ms"
               /\ Close([m |-> lat.m, e |-> lat.e - 3], lines[n].fields[4])

----------------------------------------------------------------------------
(* Location of the auxiliary data *)

\* The auxiliary data of backend b below the directory SIMAI_PATH names, and
\* the vendored copy.
AuxByEnv(b) ==
    IF b = "m4"
    THEN <<"data", "simai", "astra-sim-alibabacloud", "astra-sim",
           "network_frontend", "m4", "models">>
    ELSE <<"data", "simai", "astra-sim-alibabacloud">>
AuxBundled(b) ==
    IF b = "m4"
    THEN <<"site-packages", "simai", "_vendor", "m4_models">>
    ELSE <<"site-packages", "simai", "_vendor", "astra-sim-alibabacloud">>

\* Where the driver of backend b puts the symlink to the data.
AuxLink(i) ==
    IF backend[i] = "m4"
    THEN Tmp(i) \o <<"astra-sim-alibabacloud", "astra-sim", "network_frontend",
                     "m4", "models">>
    ELSE Tmp(i) \o <<"astra-sim-alibabacloud">>

\* The candidate that comes first in the order environment variable, bundled
\* fallback (no state of the model has data next to the binary).
AuxExpected(i) ==
    IF "SIMAI_PATH" \in DOMAIN environ0 /\ IsDir(fs0, AuxByEnv(backend[i]))
    THEN AuxByEnv(backend[i])
    ELSE IF IsDir(fs0, AuxBundled(backend[i])) THEN AuxBundled(backend[i])
    ELSE NoPath

\* C14: the auxiliary data of the analytical and the flow-level driver is
\* taken from the first existing candidate in the order explicit override,
\* environment variable, path relative to the binary, bundled fallback.
C14_AuxPrecedence ==
    \A i \in active :
        call[i] \in Drivers /\ pc[i] = "call_run" /\ AuxExpected(i) # NoPath =>
            /\ Exists(fs, AuxLink(i))
            /\ fs[AuxLink(i)].t = AuxExpected(i)

----------------------------------------------------------------------------
(* What the result list holds *)

\* The entries a driver itself creates in its temporary directory before the
\* run: ns3.py 94-110, m4.py 130-155, analytical.py 117-124.
SandboxOwn ==
    {"SimAI.conf", "flow1.txt", "trace1.txt", "topology_m4",
     "astra-sim-alibabacloud", "results", "output"}

\* The binary of invocation i wrote nothing into the temporary directory.
NothingWritten(i) ==
    \A q \in Under(fs0, Tmp(i)) : q = Tmp(i) \/ Last(q) \in SandboxOwn

\* C15: the result list handed to placement holds only files the binary
\* produced; what the driver created in the temporary directory before the
\* run is never placed, so a run in which the binary writes nothing takes
\* the empty-result path.
C15_OnlyBinaryOutput ==
    \A i \in active :
        call[i] = "placement" /\ pc[i] # "collect" =>
            /\ \A n \in 1..Len(result_files[i]) :
                  Last(result_files[i][n]) \notin SandboxOwn
            /\ NothingWritten(i) => warned[i] /\ moves[i] = 0

----------------------------------------------------------------------------
(* The primary result *)

\* C16: for a file-like target the primary result is the first element of
\* the result list whose name contains "EndToEnd" when the backend is the
\* analytical one and such an element exists, and the first element of the
\* list otherwise; it is one element of the list.
C16_PrimaryChoice ==
    \A i \in active :
        primary[i] # NoPath =>
            \E n \in 1..Len(result_files[i]) :
                /\ result_files[i][n] = primary[i]
                /\ \A k \in 1..Len(result_files[i]) :
                      result_files[i][k] = primary[i] => k = n
                /\ IF backend[i] = "analytical"
                      /\ \E k \in 1..Len(result_files[i]) :
                            Last(result_files[i][k]) = "EndToEnd.csv"
                   THEN /\ Last(result_files[i][n]) = "EndToEnd.csv"
                        /\ \A k \in 1..(n - 1) :
                              Last(result_files[i][k]) # "EndToEnd.csv"
                   ELSE n = 1

\* The analytical driver has chosen as primary a file that is not the first
\* of its list.
C16_Witness ==
    \E i \in active :
        /\ backend[i] = "analytical"
        /\ Len(result_files[i]) = 2
        /\ primary[i] = result_files[i][2]
        /\ Last(primary[i]) = "EndToEnd.csv"

----------------------------------------------------------------------------
(* Properties of the drivers from their start *)

\* C17: a driver invocation with valid inputs and a resolvable binary builds
\* its temporary directory, starts the binary exactly once with that
\* directory as working directory, places the files after the process has
\* ended and only then removes the directory; the process is always started.
C17_StepOrder ==
    \A i \in active :
        call[i] \in Drivers /\ input.topo = "ok" /\ ~NoCandidate(i) =>
            /\ spawned[i] <= 1
            /\ moves[i] > 0 => spawned[i] = 1
            /\ pc[i] = "ended" =>
                 /\ mkdtemps[i] = 1
                 /\ spawned[i] = 1
                 /\ child[i].cwd = Tmp(i)

\* C18: the argument list of the analytical driver ends with -r and exactly
\* one value, whatever optional parameters are given: result_prefix when the
\* caller gave one, else the stem of the workload file's name; -r occurs
\* nowhere else.
C18_ResultPrefixAlways ==
    \A i \in active :
        backend[i] = "analytical" /\ call[i] \in {"run_analytical", "cli_analytical"}
        /\ (pc[i] = "drv_enter" \/ mkdtemps[i] = 1) =>
            LET a == args[i] IN
            /\ Len(a) >= 2
            /\ a[Len(a) - 1] = "-r"
            /\ a[Len(a)] = IF input.prefix_given THEN input.result_prefix ELSE "wl"
            /\ \A k \in 1..Len(a) : a[k] = "-r" => k = Len(a) - 1

\* run_analytical was called with every optional parameter but without
\* result_prefix, and has built its arguments.
C18_Witness ==
    \E i \in active :
        /\ call[i] = "run_analytical"
        /\ input.opts = OptNames
        /\ ~input.prefix_given
        /\ Len(args[i]) = 26
        /\ args[i][26] = "wl"

\* The position of x in the sequence a, 0 when it does not occur.
IndexOf(a, x) ==
    IF \E k \in 1..Len(a) : a[k] = x
    THEN CHOOSE k \in 1..Len(a) : a[k] = x /\ \A j \in 1..(k - 1) : a[j] # x
    ELSE 0

\* C19: the packet-level driver starts the binary with a configuration file
\* that is a copy inside the temporary directory in which the path
\* /etc/astra-sim/simulation/ is replaced by the directory's own path: the
\* -c argument names that copy, the caller's file is untouched, and
\* flow1.txt and trace1.txt exist there before the binary starts.
C19_PatchedConfig ==
    \A i \in active :
        call[i] = "run_ns3" /\ ~NoCandidate(i) /\ pc[i] = "ended" =>
            /\ spawned[i] = 1
            /\ child[i].cwd = Tmp(i)
            /\ IndexOf(child[i].argv, "-c") # 0
            /\ child[i].argv[IndexOf(child[i].argv, "-c") + 1] = "tmpdir/SimAI.conf"

\* C20: the packet-level driver passes AS_LOG_LEVEL=0 in the environment
\* overrides, AS_SEND_LAT exactly when send_latency is given, AS_NVLS_ENABLE=1
\* exactly when nvls is true, AS_PXN_ENABLE=1 exactly when pxn is true, and
\* nothing else.
C20_Ns3Overrides ==
    \A i \in active :
        call[i] = "run_ns3" /\ ~NoCandidate(i) /\ pc[i] = "ended" =>
            LET e == child[i].env
                added == DOMAIN e \ DOMAIN environ0
            IN /\ "AS_LOG_LEVEL" \in DOMAIN e /\ e["AS_LOG_LEVEL"] = "0"
               /\ "AS_SEND_LAT" \in added <=> input.send_latency # None
               /\ "AS_NVLS_ENABLE" \in added <=> input.nvls
               /\ "AS_PXN_ENABLE" \in added <=> input.pxn
               /\ added \subseteq {"AS_LOG_LEVEL", "AS_SEND_LAT", "AS_NVLS_ENABLE",
                                   "AS_PXN_ENABLE"}

\* Whether invocation i of run_m4 has built its environment overrides.
M4Prepared(i) ==
    i \in active /\ call[i] = "run_m4" /\ pc[i] \notin {"drv_start", "absent"}

\* C21: the flow-level driver puts the ML runtime's library directory in
\* front of LD_LIBRARY_PATH, keeping an existing value after it, only if
\* the runtime is present; when it is absent the driver does not override
\* LD_LIBRARY_PATH, prints a warning, and still runs the binary.
C21_LibtorchPath ==
    \A i \in Invs :
        M4Prepared(i) =>
            IF input.libtorch # ""
            THEN /\ "LD_LIBRARY_PATH" \in DOMAIN env[i]
                 /\ env[i]["LD_LIBRARY_PATH"] =
                       (IF "LD_LIBRARY_PATH" \in DOMAIN environ0
                        THEN input.libtorch \o ":" \o environ0["LD_LIBRARY_PATH"]
                        ELSE input.libtorch)
            ELSE /\ "LD_LIBRARY_PATH" \notin DOMAIN env[i]
                 /\ pc[i] = "ended" /\ ~NoCandidate(i) /\ input.topo = "ok" =>
                       /\ printed[i] # {}
                       /\ spawned[i] = 1

\* The part of C21 about the value of the override alone.
C21_OverrideValue ==
    \A i \in Invs :
        M4Prepared(i) =>
            IF input.libtorch # ""
            THEN /\ DOMAIN env[i] = {"LD_LIBRARY_PATH"}
                 /\ env[i]["LD_LIBRARY_PATH"] =
                       (IF "LD_LIBRARY_PATH" \in DOMAIN environ0
                        THEN input.libtorch \o ":" \o environ0["LD_LIBRARY_PATH"]
                        ELSE input.libtorch)
            ELSE env[i] = NoEnv


----------------------------------------------------------------------------
(* Missing auxiliary data *)

\* No search location of invocation i's driver held the auxiliary data
\* when the call began.
AuxMissing(i) ==
    /\ call[i] \in {"run_analytical", "run_m4"}
    /\ IF backend[i] = "m4" THEN FindM4Models(fs0, environ0) = NoPath
       ELSE FindSimaiRoot(fs0, environ0) = NoPath

\* C22: when the auxiliary data is found nowhere, the driver raises no error
\* of its own: it creates no symlink for the data and still starts the
\* binary, and the outcome of the invocation is the one the binary's exit
\* status decides.
C22_MissingAuxProceeds ==
    \A i \in active :
        AuxMissing(i) /\ ~NoCandidate(i) /\ input.topo = "ok" =>
            /\ pc[i] \in {"call_run", "rb_resolve", "rb_spawn", "rb_wait"} =>
                   ~Exists(fs, AuxLink(i))
            /\ pc[i] = "ended" =>
                   /\ spawned[i] = 1
                   /\ err[i] = "CalledProcessError" <=> input.status # 0

\* The part of C22 about the symlink alone.
C22_NoLink ==
    \A i \in active :
        AuxMissing(i) /\ pc[i] = "call_run" =>
            /\ ~Exists(fs, AuxLink(i))
            /\ \A q \in Under(fs, Tmp(i)) : fs[q].k # "link"
            /\ outcome[i] = "running"


----------------------------------------------------------------------------
(* One resolution per invocation *)

\* C23: within one driver invocation the binary is resolved once and the
\* resolved path serves the whole invocation: the path from which the
\* auxiliary data is looked up relative to the binary is the path that is
\* executed.
C23_ResolvedOnce ==
    \A i \in active :
        call[i] \in {"run_analytical", "run_m4"} /\ pc[i] = "ended"
        /\ ~NoCandidate(i) /\ input.topo = "ok" =>
            /\ binary[i] = FindBinary(fs0, environ0, NameOf(i))
            /\ spawned[i] = 1
            /\ child[i].cmd = binary[i]


----------------------------------------------------------------------------
(* The scoped additions to sys.path: topology/generator.py 53-64 and          *)
(* workflow/generator.py 43-54                                              *)

\* The deepest nesting of with-blocks, and the longest sys.path a caller
\* starts with.
MaxDepth == 3
MaxPath == 2

Generators == {"topo", "aicb"}
\* The directory each search returns when it finds one.
RootOf(g) == IF g = "topo" THEN "/pkg/_vendor/topo" ELSE "/pkg/_vendor/aicb"

\* x in a: the test "root not in sys.path" negated.
InPath(a, x) == \E k \in 1..Len(a) : a[k] = x
\* a.insert(0, x)
Insert0(a, x) == <<x>> \o a
\* a.remove(x): the first occurrence of x is taken out.
Remove(a, x) ==
    LET k == IndexOf(a, x)
    IN SubSeq(a, 1, k - 1) \o SubSeq(a, k + 1, Len(a))

\* Nothing outside the scopes changes in these steps.
PathFrame == UNCHANGED <<orchVars, convVars, roots>>

\* with _topo_on_path(): / with _aicb_on_path(): the code before the yield.
\* The search runs first; when it finds no root it raises and no block opens.
PathEnter(g) ==
    /\ Len(scopes) < MaxDepth
    /\ IF roots[g] = ""
       THEN /\ last_exit' = [how |-> "FileNotFoundError", before |-> sys_path,
                             after |-> sys_path]
            /\ UNCHANGED <<sys_path, scopes>>
       ELSE LET root == roots[g]
                inserted == ~InPath(sys_path, root)
            IN /\ sys_path' = IF inserted THEN Insert0(sys_path, root) ELSE sys_path
               /\ scopes' = Append(scopes, [root |-> root, inserted |-> inserted,
                                            before |-> sys_path])
               /\ last_exit' = last_exit
    /\ PathFrame

\* The finally clause with the test of inserted left out.
PathExitAlways(how) ==
    /\ scopes # <<>>
    /\ LET s == scopes[Len(scopes)]
           after == IF InPath(sys_path, s.root) THEN Remove(sys_path, s.root)
                    ELSE sys_path
       IN /\ sys_path' = after
          /\ last_exit' = [how |-> how, before |-> s.before, after |-> after]
    /\ scopes' = SubSeq(scopes, 1, Len(scopes) - 1)
    /\ PathFrame

\* The block ends, by reaching its end or by an exception raised in it: the
\* finally clause runs for the innermost open block.
PathExit(how) ==
    /\ scopes # <<>>
    /\ LET s == scopes[Len(scopes)]
           after == IF s.inserted /\ InPath(sys_path, s.root)
                    THEN Remove(sys_path, s.root)
                    ELSE sys_path
       IN /\ sys_path' = after
          /\ last_exit' = [how |-> how, before |-> s.before, after |-> after]
    /\ scopes' = SubSeq(scopes, 1, Len(scopes) - 1)
    /\ PathFrame

RECURSIVE SeqsUpTo(_, _)
\* The sequences over S of length at most n.
SeqsUpTo(S, n) ==
    IF n = 0 THEN {<<>>}
    ELSE LET shorter == SeqsUpTo(S, n - 1)
         IN shorter \cup {Append(a, x) : a \in shorter, x \in S}

\* A caller with some sys.path, about to open a block.
InitPath ==
    /\ active = {}
    /\ fs = FsOf({<<Root, DirNode>>})
    /\ fs0 = fs
    /\ InitOrch([i \in Invs |-> "analytical"], "results", "absent")
    /\ call = [i \in Invs |-> "scope"]
    /\ input = NoInput
    /\ environ = [v \in {} |-> ""]
    /\ environ0 = environ
    /\ ConvIdle
    /\ sys_path \in SeqsUpTo({"/site", RootOf("topo"), RootOf("aicb")}, MaxPath)
    /\ roots \in {r \in [Generators -> {""} \cup {RootOf(g) : g \in Generators}] :
                    \A g \in Generators : r[g] \in {"", RootOf(g)}}
    /\ scopes = <<>>
    /\ last_exit = NoExit
    /\ GenIdle

NextPath ==
    \/ \E g \in Generators : PathEnter(g) /\ UNCHANGED genVars
    \/ \E how \in {"return", "exception"} : PathExit(how) /\ UNCHANGED genVars

SpecPath == InitPath /\ [][NextPath]_vars

\* C24: when a block of _topo_on_path or _aicb_on_path ends, by reaching its
\* end or by an exception, sys.path is what it was when the block began: an
\* entry the block inserted is gone, an entry present before is neither
\* doubled nor removed, also when blocks for the same root are nested.
C24_PathRestored ==
    last_exit.how # "none" => last_exit.after = last_exit.before

\* An inner block for a root the outer block inserted ended by an exception
\* while the outer block is still open.
C24_Witness ==
    /\ last_exit.how = "exception"
    /\ Len(scopes) = 1
    /\ scopes[1].inserted
    /\ last_exit.before = Insert0(scopes[1].before, scopes[1].root)
    /\ sys_path = last_exit.before


----------------------------------------------------------------------------
(* The GPU count of a workload file *)

\* The number of the first token in the leading comment lines or in the
\* first line that is no comment; None when there is none.
HeaderCount(w) ==
    LET hits == {n \in 1..Len(w) : /\ w[n].gpus # None
                                   /\ \A m \in 1..(n - 1) :
                                        w[m].comment /\ w[m].gpus = None}
    IN IF hits = {} THEN None ELSE w[CHOOSE n \in hits : TRUE].gpus

\* The command of invocation i is past _validate_gpu_count, which ran on an
\* existing workload file and an existing metadata.json.
Validated(i) ==
    /\ i \in active
    /\ call[i] = "cli_analytical"
    /\ IsFile(fs0, Workload) /\ IsFile(fs0, Metadata)
    /\ pc[i] \notin {"import", "cli_meta", "cli_validate"}

\* C25: the workload GPU count is the number of the first all_gpus: N token
\* in the leading comment lines or the first non-comment line; later lines
\* are never used; the check rejects exactly when that count and metadata's
\* num_gpus both exist and differ, and accepts otherwise.
C25_HeaderCountOnly ==
    \A i \in Invs :
        Validated(i) =>
            (err[i] = "BadParameter" <=>
                /\ HeaderCount(input.workload) # None
                /\ input.num_gpus # None
                /\ HeaderCount(input.workload) # input.num_gpus)

\* The check accepted a workload whose only token stands after the first
\* non-comment line and differs from the topology's count.
C25_Witness ==
    \E i \in Invs :
        /\ Validated(i)
        /\ pc[i] = "cli_call"
        /\ Len(input.workload) = 2
        /\ ~input.workload[1].comment /\ input.workload[1].gpus = None
        /\ input.workload[2].gpus \notin {None, input.num_gpus}
        /\ input.num_gpus # None


----------------------------------------------------------------------------
(* What directory-like placement leaves alone *)

\* The names of the results the invocations have collected.
CollectedNames ==
    UNION {{Last(result_files[i][n]) : n \in 1..Len(result_files[i])} : i \in active}

\* The paths that existed at or below an entry of directory d whose name
\* is not the name of a collected result.
Bystanders(d) ==
    {q \in DOMAIN fs0 : /\ IsPrefix(d, q)
                        /\ Len(q) > Len(d)
                        /\ q[Len(d) + 1] \notin CollectedNames}

\* Every invocation places into the same directory-like target.
AllDirLike ==
    /\ call = [i \in Invs |-> "placement"]
    /\ \A i \in active : ~FileLike(fs0, output_path[i])

\* C26: directory-like placement changes only the entries of the target
\* directory that bear the name of a result: every entry that was in the
\* target under another name is still there, unchanged with all below it,
\* after one invocation or several into the same target.
C26_BystandersKept ==
    AllDirLike =>
        \A i \in active :
            \A q \in Bystanders(output_path[i]) :
                q \in DOMAIN fs /\ fs[q] = fs0[q]

\* Two invocations placed results into a directory that held keep.txt and
\* an entry under a name neither of them produced.
C26_Witness ==
    /\ AllDirLike
    /\ active = {1, 2}
    /\ \A i \in active : pc[i] = "ended" /\ outcome[i] = "returned" /\ moves[i] > 0
    /\ Cardinality({Last(q) : q \in Bystanders(output_path[1])}) >= 2

\* One invocation replaced a directory entry of a result's name while a
\* directory entry under another name stayed with its children.
C26_WitnessSolo ==
    /\ AllDirLike
    /\ active = {1}
    /\ pc[1] = "ended" /\ outcome[1] = "returned" /\ moves[1] > 0
    /\ \E q \in Bystanders(output_path[1]) : Len(q) = Len(output_path[1]) + 2
    /\ \E n \in CollectedNames : IsDir(fs0, output_path[1] \o <<n>>)


----------------------------------------------------------------------------
(* What the removal of the temporary directory leaves alone *)

\* The caller's input files and the real auxiliary data: every path that
\* existed at or below them when the call began.
CallerData ==
    {q \in DOMAIN fs0 :
        \/ q \in {Workload, TopologyFile, Metadata}
        \/ IsPrefix(Package \o <<"_vendor">>, q)
        \/ IsPrefix(PathOf("/data/simai"), q)}

\* C27: an invocation, whether it succeeds or fails, never deletes, moves or
\* modifies the real auxiliary data its temporary directory links to or the
\* caller's workload, topology and configuration files; removing the
\* temporary directory removes only entries of that directory.
C27_CallerDataKept ==
    \A q \in CallerData : q \in DOMAIN fs /\ fs[q] = fs0[q]

\* The temporary directory of an invocation held a symlink to auxiliary
\* data and is gone, after a failure or after placement.
Unlinked(i) ==
    /\ pc[i] = "ended"
    /\ ~Exists(fs, Tmp(i))
    /\ \/ \E q \in Under(fs0, Tmp(i)) : fs0[q].k = "link"
       \/ /\ call[i] \in {"run_analytical", "run_m4"}
          /\ mkdtemps[i] = 1 /\ err[i] = "TypeError"
          /\ IF backend[i] = "m4" THEN FindM4Models(fs0, environ0) # NoPath
             ELSE FindSimaiRoot(fs0, environ0) # NoPath

C27_Witness ==
    \E i \in active :
        /\ Unlinked(i)
        /\ outcome[i] = "raised"
        /\ \E q \in CallerData : Len(q) > Len(Package) + 2


----------------------------------------------------------------------------
(* generate_topology: topology/generator.py 75-199.  The upstream script    *)
(* gen_Topo_Template is not part of this repository: what analysis_template *)
(* returns and what the generation function writes are inputs.              *)

\* _parse_bandwidth(s): the number, None when it raises ValueError (the
\* pattern does not match, or float() rejects what the pattern let through).
ParseBandwidth(s) ==
    CASE s = "100Gbps" -> 100
      [] s = "2880Gbps" -> 2880
      [] s = "400 gbps" -> 400
      [] s = "100Mbps" -> None
      [] s = "1.2.3Gbps" -> None

\* The bandwidth strings a caller passes.
Bandwidths == {"100Gbps", "400 gbps", "100Mbps", "1.2.3Gbps"}

\* The temporary directory of generate_topology.
GenTmp == <<"simai_topo_tmp">>
\* The entries the generation function may leave in its working directory;
\* "cache" is a directory, the others are files.
GenNames == {"Spectrum-X_8g", "notes.txt", "cache"}
GenNode(n) == IF n = "cache" THEN DirNode ELSE FileNode(Content(1, n))

\* The two raise statements of the selection of gen_func.
Unsupported(p) ==
    IF ~p.rail_optimized THEN p.dual_plane
    ELSE ~p.dual_ToR /\ p.dual_plane

\* output_dir: the given path, else the topology file's name in the cwd.
OutputDir == IF gen_in.output = "given" THEN Out \o <<"topo">>
             ELSE cwd \o <<Last(topo_file)>>

\* What generate_topology leaves alone.
genFrame == <<fs0, active, backend, output_path, pc, outcome, err, call, input,
              environ0, hostVars, placeLocals, convVars>>

\* with _topo_on_path(): the block opens, or the search raises.
GenStart ==
    /\ gstate = "start"
    /\ PathEnter("topo")
    /\ IF roots["topo"] = ""
       THEN gstate' = "raised" /\ gerr' = "FileNotFoundError"
       ELSE gstate' = "analyse" /\ gerr' = gerr
    /\ UNCHANGED <<gen_in, cwd, orig_cwd, topo_file>>

\* parameters = analysis_template(args, []) and the choice of gen_func.
GenSelect ==
    /\ gstate = "analyse"
    /\ IF Unsupported(gen_in)
       THEN gstate' = "path_exit" /\ gerr' = "ValueError"
       ELSE gstate' = "mkdtemp" /\ gerr' = gerr
    /\ UNCHANGED <<fs, genFrame, pathVars, gen_in, cwd, orig_cwd, topo_file>>

\* with tempfile.TemporaryDirectory(...) as tmpdir: orig_cwd = os.getcwd()
GenMkdtemp ==
    /\ gstate = "mkdtemp"
    /\ fs' = Put(fs, GenTmp, DirNode)
    /\ orig_cwd' = cwd
    /\ gstate' = "chdir"
    /\ UNCHANGED <<genFrame, pathVars, gen_in, cwd, topo_file, gerr>>

\* os.chdir(tmpdir)
GenChdir ==
    /\ gstate = "chdir"
    /\ cwd' = GenTmp
    /\ gstate' = "gen_func"
    /\ UNCHANGED <<fs, genFrame, pathVars, gen_in, orig_cwd, topo_file, gerr>>

\* gen_func(parameters): upstream writes into the working directory, may
\* change directory, and returns or raises.
GenFunc ==
    /\ gstate = "gen_func"
    /\ fs' = [q \in DOMAIN fs \cup {cwd \o <<n>> : n \in gen_in.made} |->
                IF q \in DOMAIN fs THEN fs[q] ELSE GenNode(Last(q))]
    /\ cwd' = IF gen_in.wanders THEN Root ELSE cwd
    /\ gerr' = IF gen_in.fails THEN "UpstreamError" ELSE gerr
    /\ gstate' = "finally"
    /\ UNCHANGED <<genFrame, pathVars, gen_in, orig_cwd, topo_file>>

\* The finally clause with os.chdir(orig_cwd) left out.
GenFinallySkipped ==
    /\ gstate = "finally"
    /\ cwd' = cwd
    /\ gstate' = IF gerr # "none" THEN "tmp_exit" ELSE "place"
    /\ UNCHANGED <<fs, genFrame, pathVars, gen_in, orig_cwd, topo_file, gerr>>

\* finally: os.chdir(orig_cwd)
GenFinally ==
    /\ gstate = "finally"
    /\ cwd' = orig_cwd
    /\ gstate' = IF gerr # "none" THEN "tmp_exit" ELSE "place"
    /\ UNCHANGED <<fs, genFrame, pathVars, gen_in, orig_cwd, topo_file, gerr>>

\* shutil.move(src, dst) for a file src: into dst when dst is a directory
\* (an error when the name is taken there), else onto dst.
GenMove(f, src, dst) ==
    IF IsDir(f, dst)
    THEN IF Exists(f, dst \o <<Last(src)>>)
         THEN [fs |-> f, err |-> "shutil.Error"]
         ELSE [fs |-> Rename(f, src, dst \o <<Last(src)>>), err |-> "none"]
    ELSE [fs |-> Rename(f, src, dst), err |-> "none"]

\* The listing of tmpdir, output_dir.mkdir(parents=True, exist_ok=True) and
\* shutil.move(topo_file, output_dir / "topology").
GenPlace ==
    /\ gstate = "place"
    /\ LET generated == {q \in Iterdir(fs, GenTmp) : IsFile(fs, q)}
       IN IF generated = {}
          THEN /\ gerr' = "RuntimeError"
               /\ UNCHANGED <<fs, topo_file>>
          ELSE \E g \in generated :
                  /\ topo_file' = g
                  /\ LET output_dir == IF gen_in.output = "given" THEN Out \o <<"topo">>
                                       ELSE cwd \o <<Last(g)>>
                     IN IF ~MkdirOk(fs, output_dir)
                        THEN gerr' = "FileExistsError" /\ fs' = fs
                        ELSE LET m == GenMove(Mkdir(fs, output_dir), g,
                                              output_dir \o <<"topology">>)
                             IN fs' = m.fs /\ gerr' = m.err
    /\ gstate' = "tmp_exit"
    /\ UNCHANGED <<genFrame, pathVars, gen_in, cwd, orig_cwd>>

\* The exit of the TemporaryDirectory block: tmpdir is removed.
GenTmpExit ==
    /\ gstate = "tmp_exit"
    /\ fs' = RemoveTree(fs, GenTmp)
    /\ gstate' = IF gerr # "none" THEN "path_exit" ELSE "metadata"
    /\ UNCHANGED <<genFrame, pathVars, gen_in, cwd, orig_cwd, topo_file, gerr>>

\* metadata = {...}: both bandwidths are parsed; then metadata.json is
\* opened for writing and written.
GenMetadata ==
    /\ gstate = "metadata"
    /\ LET md == OutputDir \o <<"metadata.json">>
       IN IF ParseBandwidth(gen_in.bandwidth) = None
             \/ ParseBandwidth(gen_in.nvlink_bw) = None
          THEN gerr' = "ValueError" /\ fs' = fs
          ELSE IF IsDir(fs, md)
          THEN gerr' = "IsADirectoryError" /\ fs' = fs
          ELSE /\ gerr' = gerr
               /\ fs' = Put(fs, md, FileNode(Content(1, "metadata.json")))
    /\ gstate' = "path_exit"
    /\ UNCHANGED <<genFrame, pathVars, gen_in, cwd, orig_cwd, topo_file>>

\* The exit of the _topo_on_path block; the call returns output_dir or the
\* exception leaves it.
GenPathExit ==
    /\ gstate = "path_exit"
    /\ PathExit(IF gerr = "none" THEN "return" ELSE "exception")
    /\ gstate' = IF gerr = "none" THEN "returned" ELSE "raised"
    /\ UNCHANGED <<gen_in, cwd, orig_cwd, topo_file, gerr>>

\* What the output directory holds before the call.
GenOutEntries(pre) ==
    LET o == Out \o <<"topo">>
        old(n) == <<o \o <<n>>, FileNode(Content(0, n))>>
    IN CASE pre = "none" -> {}
         [] pre = "file" -> {<<o, FileNode(Content(0, "topo"))>>}
         [] pre = "dir" -> {<<o, DirNode>>}
         [] pre = "full" -> {<<o, DirNode>>, old("topology"), old("metadata.json")}
         [] pre = "topodir" -> {<<o, DirNode>>, <<o \o <<"topology">>, DirNode>>}
         [] pre = "metadir" -> {<<o, DirNode>>, <<o \o <<"metadata.json">>, DirNode>>}

\* A caller of generate_topology.
InitTopo ==
    /\ active = {}
    /\ InitOrch([i \in Invs |-> "analytical"], "results", "absent")
    /\ call = [i \in Invs |-> "generate_topology"]
    /\ input = NoInput
    /\ environ = [v \in {} |-> ""]
    /\ environ0 = environ
    /\ ConvIdle
    /\ sys_path \in {<<"/site">>, <<"/site", RootOf("topo")>>}
    /\ roots \in {[g \in Generators |-> IF g = "topo" THEN r ELSE ""] :
                    r \in {"", RootOf("topo")}}
    /\ scopes = <<>>
    /\ last_exit = NoExit
    /\ gstate = "start"
    /\ \E output \in {"none", "given"},
          pre \in {"none", "file", "dir", "full", "topodir", "metadir"},
          rail_optimized \in BOOLEAN, dual_ToR \in BOOLEAN, dual_plane \in BOOLEAN,
          bandwidth \in Bandwidths, nvlink_bw \in {"2880Gbps", "100Mbps"},
          made \in SUBSET GenNames, fails \in BOOLEAN, wanders \in BOOLEAN :
          LET g == [output |-> output, pre |-> pre, rail_optimized |-> rail_optimized,
                    dual_ToR |-> dual_ToR, dual_plane |-> dual_plane,
                    bandwidth |-> bandwidth, nvlink_bw |-> nvlink_bw,
                    made |-> made, fails |-> fails, wanders |-> wanders]
              plain == [g EXCEPT !.rail_optimized = TRUE, !.dual_ToR = FALSE,
                                 !.dual_plane = FALSE]
          IN /\ output = "none" => pre = "none"
             /\ nvlink_bw # "2880Gbps" => bandwidth = "100Gbps"
             /\ wanders => made = {"Spectrum-X_8g"}
             /\ (roots["topo"] = "" \/ Unsupported(g)) =>
                    [plain EXCEPT !.output = "none"] = NoGen
             /\ gen_in = g
             /\ fs = FsOf({<<Root, DirNode>>, <<Work, DirNode>>, <<Out, DirNode>>}
                          \cup GenOutEntries(pre))
    /\ fs0 = fs
    /\ cwd = Work
    /\ orig_cwd = NoPath
    /\ topo_file = NoPath
    /\ gerr = "none"

NextTopo ==
    \/ GenStart
    \/ GenSelect
    \/ GenMkdtemp
    \/ GenChdir
    \/ GenFunc
    \/ GenFinally
    \/ GenPlace
    \/ GenTmpExit
    \/ GenMetadata
    \/ GenPathExit

SpecTopo == InitTopo /\ [][NextTopo]_vars


\* The call of generate_topology has ended.
GenEnded == gstate \in {"returned", "raised"}

\* The files the call wrote that are not in its temporary directory.
GenWritten ==
    {q \in DOMAIN fs : /\ ~IsPrefix(GenTmp, q)
                       /\ fs[q].k = "file"
                       /\ fs[q].c[1] = 1}

\* C28: generate_topology writes both the topology file and metadata.json
\* into the output directory or neither: on every failing path the error
\* is raised before a topology file is placed in the output directory.
C28_BothOrNeither ==
    /\ gstate = "raised" => GenWritten = {}
    /\ gstate = "returned" =>
          /\ IsFile(fs, OutputDir \o <<"metadata.json">>)
          /\ \E q \in GenWritten : IsPrefix(OutputDir \o <<"topology">>, q)

\* The call failed while it built or wrote the metadata.
MetadataFailed ==
    /\ gstate = "raised"
    /\ ~Unsupported(gen_in)
    /\ gerr \in {"ValueError", "IsADirectoryError"}

\* The part of C28 that holds: a failure before the metadata is built
\* leaves nothing in the output directory.
C28_FailuresBeforePlacing ==
    gstate = "raised" /\ ~MetadataFailed => GenWritten = {}

\* C29: when generate_topology has ended, by return or by an exception, the
\* working directory of the process is the one it was before the call and
\* the temporary generation directory does not exist.
C29_CwdRestored ==
    GenEnded => cwd = Work /\ ~Exists(fs, GenTmp)

\* The generation function wrote files, changed directory and raised.
C29_Witness ==
    /\ gstate = "raised"
    /\ gerr = "UpstreamError"
    /\ gen_in.wanders
    /\ gen_in.made # {}
    /\ orig_cwd = Work


----------------------------------------------------------------------------
(* Where run_m4 takes its results from *)

\* The entries of the output directory of invocation i's sandbox, and the
\* entries of the sandbox root that are not the driver's own, after the run.
InOutput(i) == Iterdir(fs0, Tmp(i) \o <<"output">>)
InRoot(i) == {q \in Iterdir(fs0, Tmp(i)) : Last(q) \notin M4Skipped}

\* The result list of invocation i as a set.
ResultSet(i) == {result_files[i][n] : n \in 1..Len(result_files[i])}

\* Invocation i of run_m4 has built its result list.
M4Collected(i) ==
    /\ i \in active
    /\ call[i] = "placement"
    /\ backend[i] = "m4"
    /\ pc[i] # "collect"

\* C30: run_m4 takes its results from the sandbox's output directory when
\* that holds an entry; only when it holds none does it take the entries of
\* the sandbox root other than topology_m4, astra-sim-alibabacloud and
\* output; the two locations are never mixed in one result list.
C30_OutputElseRoot ==
    \A i \in Invs :
        M4Collected(i) =>
            /\ InOutput(i) # {} => ResultSet(i) = InOutput(i)
            /\ InOutput(i) = {} => ResultSet(i) = InRoot(i)
            /\ Len(result_files[i]) = Cardinality(ResultSet(i))

\* The binary left files in output/ and a file in its working directory,
\* and the list holds the former only.
C30_Witness ==
    \E i \in Invs :
        /\ M4Collected(i)
        /\ InOutput(i) # {} /\ InRoot(i) # {}
        /\ pc[i] = "ended" /\ outcome[i] = "returned"

\* The binary left nothing in output/ and files in its working directory.
C30_WitnessRoot ==
    \E i \in Invs :
        /\ M4Collected(i)
        /\ InOutput(i) = {} /\ InRoot(i) # {}
        /\ ResultSet(i) = InRoot(i)

====
